---- MODULE Spec2Model ----
(***************************************************************************)
(* The league coordinator of ding (framework/middleware/league_coordinator *)
(* .py) and the node start-up of entry/main_league.py, as one state        *)
(* machine: one node's process, its league, the coordinator's job          *)
(* generator and handlers, and the peers (actors, learners) that send it   *)
(* events over an at-least-once transport.  Spec takes a handler call as   *)
(* one step; StepsSpec runs the handlers statement by statement.           *)
(***************************************************************************)
EXTENDS Integers, Sequences, FiniteSets, TLC

VARIABLES
    pc,          \* phase of main(): "start", "running" (in task.run), "done"
                 \* (task.run returned), "exit", "raised"
    finish,      \* task.finish
    node_id,     \* task.router.node_id
    is_active,   \* task.router.is_active
    workers,     \* cfg.task.workers, as the ordered items of the dict
    installed,   \* the middleware given to task.use, in order
    league,      \* the BaseLeague instance of this process
    i,           \* the local counter i of the generator _create_job_iter
    job_iter,    \* state of the generator object self._job_iter
    emitted,     \* every task.emit of the coordinator: <<topic, job>> in order
    running,     \* the handler calls in progress, each with the statement
                 \* it has reached
    raised,      \* class of the last exception that left main() or a handler
    inflight,    \* events sent to the coordinator and still deliverable
    greeted,     \* actors that have sent their greeting
    reported,    \* positions of emitted whose job an actor has reported
    handled,     \* how often each handler ran: per greeting actor, per
                 \* reported job (by its generator position), per snapshot,
                 \* and per stale result and stale snapshot
    budget,      \* what the peers have used up of the bounds below
    \* the objects of model/wrapper/model_wrappers.py, one under test in each
    \* of the wrapper specifications further below
    target,               \* a TargetNetworkWrapper and its model
    finer_target,         \* a FinerTargetNetworkWrapper and its model
    hidden_state,         \* a HiddenStateWrapper
    hidden_state_ac,      \* a HiddenStateACWrapper
    wrapper_name_map,     \* the module's dict wrapper_name_map
    model,                \* the variable model of a caller of model_wrap
    action_trigger_noise, \* an ActionTriggerNoiseWrapper
    ret                   \* the last call made on a wrapper: its arguments,
                          \* what the wrapped model was given, what came back

mainVars == <<pc, finish, node_id, is_active, workers, installed>>
coordVars == <<i, job_iter, emitted, running>>
peerVars == <<inflight, greeted, reported, budget>>
leagueVars == <<pc, finish, node_id, is_active, workers, installed, league, i,
                job_iter, emitted, running, raised, inflight, greeted, reported,
                handled, budget>>
wrapVars == <<target, finer_target, hidden_state, hidden_state_ac,
              wrapper_name_map, model, action_trigger_noise, ret>>
vars == <<pc, finish, node_id, is_active, workers, installed, league, i, job_iter,
          emitted, running, raised, inflight, greeted, reported, handled, budget,
          target, finer_target, hidden_state, hidden_state_ac, wrapper_name_map,
          model, action_trigger_noise, ret>>

----------------------------------------------------------------------------
(* Bounds of the model *)

\* jobs pulled from the generator
MaxJobs == 3
\* events beyond greetings and reports, all kinds together: redeliveries
\* by the at-least-once transport, player snapshots of learners, stale job
\* results, active players registered after construction, the end of the
\* task
MaxExtra == 1
\* highest node id started
MaxNode == 4

PlayerIds == <<"A", "B", "C">>
ActorIds == {"X", "Y"}
\* the outcomes actors report; the coordinator hands the result to the league
\* without looking at it
Outcomes == {"wins"}
\* a player id no league of the model ever holds: what a stale message names
StaleId == "Z"

\* the value of an attribute that was never assigned (Python's None)
None == "None"

\* no wrapper object exists: the league specifications leave them alone
WrappersIdle ==
    /\ target = None
    /\ finer_target = None
    /\ hidden_state = None
    /\ hidden_state_ac = None
    /\ wrapper_name_map = None
    /\ model = None
    /\ action_trigger_noise = None
    /\ ret = None

\* what a run has used of MaxExtra
extras ==
    budget.redeliver + budget.snapshots + budget.register + budget.stale
        + budget.finish + budget.unaddressed

----------------------------------------------------------------------------
(* The league (ding.league.v2.BaseLeague) *)

Player(id, ckpt) == [player_id |-> id, checkpoint |-> ckpt]

\* checkpoints are numbered: 1 is what a new active player starts from
FirstCheckpoint == 1

\* BaseLeague(cfg): the configured active players, no historical player,
\* an empty payoff
BaseLeague(ids) ==
    [active_players |-> [k \in 1..Len(ids) |-> Player(ids[k], FirstCheckpoint)],
     historical_players |-> <<>>,
     payoff |-> <<>>]

\* league.active_players_ids
active_players_ids(lg) ==
    [k \in 1..Len(lg.active_players) |-> lg.active_players[k].player_id]

Range(s) == {s[k] : k \in DOMAIN s}

all_players_ids(lg) ==
    Range(active_players_ids(lg))
        \cup {lg.historical_players[k].player_id : k \in DOMAIN lg.historical_players}

ZeroStat == [wins |-> 0, draws |-> 0, losses |-> 0]

\* the statistics of the ordered pair key, the neutral start for an unseen pair
stat(pay, key) == IF key \in DOMAIN pay THEN pay[key] ELSE ZeroStat

\* number of outcomes recorded in the payoff
games(pay) ==
    LET RECURSIVE sum(_)
        sum(ks) == IF ks = {} THEN 0
                   ELSE LET k == CHOOSE x \in ks : TRUE
                        IN pay[k].wins + pay[k].draws + pay[k].losses + sum(ks \ {k})
    IN sum(DOMAIN pay)

\* the players the matchmaker may pair player_id with: any other registered
\* player, itself when it is alone
opponents(lg, player_id) ==
    IF all_players_ids(lg) = {player_id} THEN {player_id}
    ELSE all_players_ids(lg) \ {player_id}

\* league.get_job_info(player_id): the jobs the matchmaker may hand out for
\* the primary player_id; actor_id is not bound yet.  seq_pos, player_num and
\* games_seen record what the job was made from: the generator position that
\* asked, the number of active players and the payoff the league held then.
get_job_info(lg, player_id, pos) ==
    {[launch_player |-> player_id,
      players |-> <<player_id, o>>,
      actor_id |-> None,
      result |-> None,
      seq_pos |-> pos,
      player_num |-> Len(lg.active_players),
      games_seen |-> games(lg.payoff)] : o \in opponents(lg, player_id)}

----------------------------------------------------------------------------
(* LeagueCoordinator.  Its handlers are the operations of the class; the     *)
(* event layer of the task calls them with the events delivered to it, one *)
(* call at a time, so that a call is one step here.  The same handlers     *)
(* statement by statement are further below.                               *)

\* the topic without the actor id
Format_no_id(actor_id) == "league_job_actor_"

\* "league_job_actor_{}".format(actor_id)
Format(actor_id) == "league_job_actor_" \o actor_id

\* the index taken after the counter was advanced
select_player_id_skewed(ids, n) == ids[((n + 1) % Len(ids)) + 1]

\* line 36: self.league.active_players_ids[i % player_num], lists from 0
select_player_id(ids, n) == ids[(n % Len(ids)) + 1]

\* the job is sent as the league made it
bind_actor_id_skipped(job, actor_id) == job

\* every job is bound to the same actor, whoever asked
bind_actor_id_fixed(job, actor_id) == [job EXCEPT !.actor_id = "X"]

\* line 48: job.actor_id = actor_id
bind_actor_id(job, actor_id) == [job EXCEPT !.actor_id = actor_id]

\* the bound job is emitted twice
_distribute_job_twice(actor_id, lg) ==
    IF job_iter = "closed"
    THEN /\ raised' = "StopIteration"
         /\ UNCHANGED <<i, job_iter, emitted>>
    ELSE LET ids == active_players_ids(lg)
             player_num == Len(ids)
         IN IF player_num = 0
            THEN /\ raised' = "ZeroDivisionError"
                 /\ job_iter' = "closed"
                 /\ UNCHANGED <<i, emitted>>
            ELSE \E job \in get_job_info(lg, select_player_id(ids, i), i) :
                    LET msg == [topic |-> Format(actor_id),
                                job |-> bind_actor_id(job, actor_id)]
                    IN /\ i' = i + 1
                       /\ job_iter' = "suspended"
                       /\ emitted' = Append(Append(emitted, msg), msg)
                       /\ raised' = None

\* the generator is exhausted after two jobs
_distribute_job_finite(actor_id, lg) ==
    IF job_iter = "closed" \/ i >= 2
    THEN /\ raised' = "StopIteration"
         /\ job_iter' = "closed"
         /\ UNCHANGED <<i, emitted>>
    ELSE LET ids == active_players_ids(lg)
             player_num == Len(ids)
         IN IF player_num = 0
            THEN /\ raised' = "ZeroDivisionError"
                 /\ job_iter' = "closed"
                 /\ UNCHANGED <<i, emitted>>
            ELSE \E job \in get_job_info(lg, select_player_id(ids, i), i) :
                    /\ i' = i + 1
                    /\ job_iter' = "suspended"
                    /\ emitted' = Append(emitted,
                           [topic |-> Format(actor_id),
                            job |-> bind_actor_id(job, actor_id)])
                    /\ raised' = None

\* the counter is wrapped at the number of active players
_distribute_job_rewound(actor_id, lg) ==
    IF job_iter = "closed"
    THEN /\ raised' = "StopIteration"
         /\ UNCHANGED <<i, job_iter, emitted>>
    ELSE LET ids == active_players_ids(lg)
             player_num == Len(ids)
         IN IF player_num = 0
            THEN /\ raised' = "ZeroDivisionError"
                 /\ job_iter' = "closed"
                 /\ UNCHANGED <<i, emitted>>
            ELSE \E job \in get_job_info(lg, select_player_id(ids, i), i) :
                    /\ i' = (i + 1) % player_num
                    /\ job_iter' = "suspended"
                    /\ emitted' = Append(emitted,
                           [topic |-> Format(actor_id),
                            job |-> bind_actor_id(job, actor_id)])
                    /\ raised' = None

\* the number of active players is read once, at the first job
_distribute_job_fixed_len(actor_id, lg) ==
    IF job_iter = "closed"
    THEN /\ raised' = "StopIteration"
         /\ UNCHANGED <<i, job_iter, emitted>>
    ELSE LET ids == active_players_ids(lg)
             player_num == IF emitted = <<>> THEN Len(ids)
                           ELSE emitted[1].job.player_num
         IN IF player_num = 0
            THEN /\ raised' = "ZeroDivisionError"
                 /\ job_iter' = "closed"
                 /\ UNCHANGED <<i, emitted>>
            ELSE \E job \in get_job_info(lg, ids[(i % player_num) + 1], i) :
                    /\ i' = i + 1
                    /\ job_iter' = "suspended"
                    /\ emitted' = Append(emitted,
                           [topic |-> Format(actor_id),
                            job |-> bind_actor_id(job, actor_id)])
                    /\ raised' = None

\* _distribute_job(actor_id) on the league lg: next(self._job_iter) runs the
\* generator body to its yield, then the job is bound and emitted.  An
\* exception inside the body finishes the generator; next() of a finished
\* generator raises StopIteration.
_distribute_job(actor_id, lg) ==
    IF job_iter = "closed"
    THEN /\ raised' = "StopIteration"
         /\ UNCHANGED <<i, job_iter, emitted>>
    ELSE LET ids == active_players_ids(lg)
             player_num == Len(ids)
         IN IF player_num = 0
            THEN /\ raised' = "ZeroDivisionError"
                 /\ job_iter' = "closed"
                 /\ UNCHANGED <<i, emitted>>
            ELSE \E job \in get_job_info(lg, select_player_id(ids, i), i) :
                    /\ i' = i + 1
                    /\ job_iter' = "suspended"
                    /\ emitted' = Append(emitted,
                           [topic |-> Format(actor_id),
                            job |-> bind_actor_id(job, actor_id)])
                    /\ raised' = None

\* the league holds every player the job names; league.update_payoff(job)
\* fails with UnknownPlayer otherwise
known_players(lg, job) == Range(job.players) \subseteq all_players_ids(lg)

\* league.update_payoff(job): one more outcome for the job's ordered pair
update_payoff(lg, job) ==
    LET key == job.players
        old == stat(lg.payoff, key)
    IN [lg EXCEPT !.payoff =
           (key :> [old EXCEPT ![job.result] = @ + 1]) @@ lg.payoff]

\* league.update_active_player(player_meta): the named active player takes
\* the checkpoint of the snapshot
update_active_player(lg, meta) ==
    [lg EXCEPT !.active_players =
        [k \in DOMAIN @ |->
            IF @[k].player_id = meta.player_id
            THEN [@[k] EXCEPT !.checkpoint = meta.checkpoint]
            ELSE @[k]]]

\* the checkpoint the active player id holds in lg
checkpoint_of(lg, id) ==
    LET k == CHOOSE k \in DOMAIN lg.active_players :
                 lg.active_players[k].player_id = id
    IN lg.active_players[k].checkpoint

\* league.create_historical_player(player_meta): a frozen copy of the named
\* active player at the checkpoint it holds now
create_historical_player(lg, meta) ==
    [lg EXCEPT !.historical_players =
        Append(@, [player_id |-> meta.player_id \o "_h"
                                   \o ToString(Len(@) + 1),
                   parent_id |-> meta.player_id,
                   checkpoint |-> checkpoint_of(lg, meta.player_id)])]

\* on_actor_greeting(actor_id)
on_actor_greeting(actor_id) ==
    /\ _distribute_job(actor_id, league)
    /\ UNCHANGED league

\* the follow-up job is made before the payoff is updated
on_actor_job_stale(job) ==
    IF ~known_players(league, job)
    THEN /\ raised' = "UnknownPlayer"
         /\ UNCHANGED <<league, i, job_iter, emitted>>
    ELSE /\ league' = update_payoff(league, job)
         /\ _distribute_job(job.actor_id, league)

\* a result that was handled before is ignored
on_actor_job_dedup(job) ==
    IF ~known_players(league, job)
    THEN /\ raised' = "UnknownPlayer"
         /\ UNCHANGED <<league, i, job_iter, emitted>>
    ELSE IF handled.result[job.seq_pos] > 0
    THEN UNCHANGED <<league, i, job_iter, emitted, raised>>
    ELSE LET lg == update_payoff(league, job)
         IN /\ league' = lg
            /\ _distribute_job(job.actor_id, lg)

\* the next job is sent without the payoff being updated
on_actor_job_no_payoff(job) ==
    IF ~known_players(league, job)
    THEN /\ raised' = "UnknownPlayer"
         /\ UNCHANGED <<league, i, job_iter, emitted>>
    ELSE /\ UNCHANGED league
         /\ _distribute_job(job.actor_id, league)

\* the result is applied to the payoff twice
on_actor_job_twice(job) ==
    IF ~known_players(league, job)
    THEN /\ raised' = "UnknownPlayer"
         /\ UNCHANGED <<league, i, job_iter, emitted>>
    ELSE LET lg == update_payoff(update_payoff(league, job), job)
         IN /\ league' = lg
            /\ _distribute_job(job.actor_id, lg)

\* the failure of the payoff update is caught and the next job goes out
on_actor_job_catch(job) ==
    IF ~known_players(league, job)
    THEN /\ UNCHANGED league
         /\ _distribute_job(job.actor_id, league)
    ELSE LET lg == update_payoff(league, job)
         IN /\ league' = lg
            /\ _distribute_job(job.actor_id, lg)

\* on_actor_job(job): the payoff is updated, then the next job goes to the
\* actor the job names.  The handler catches nothing: when update_payoff
\* fails, its exception leaves the handler on line 29, before line 30.
on_actor_job(job) ==
    LET actor_id == job.actor_id
    IN IF ~known_players(league, job)
       THEN /\ raised' = "UnknownPlayer"
            /\ UNCHANGED <<league, i, job_iter, emitted>>
       ELSE LET lg == update_payoff(league, job)
            IN /\ league' = lg
               /\ _distribute_job(actor_id, lg)

\* the historical player is created before the active player is updated
on_learner_player_meta_swapped(meta) ==
    IF meta.player_id \notin Range(active_players_ids(league))
    THEN /\ raised' = "NotFound"
         /\ UNCHANGED <<league, i, job_iter, emitted>>
    ELSE /\ league' = update_active_player(
                          create_historical_player(league, meta), meta)
         /\ raised' = None
         /\ UNCHANGED <<i, job_iter, emitted>>

\* the learner's snapshot is answered with a job for the first actor
on_learner_player_meta_reply(meta) ==
    IF meta.player_id \notin Range(active_players_ids(league))
    THEN /\ raised' = "NotFound"
         /\ UNCHANGED <<league, i, job_iter, emitted>>
    ELSE LET lg == create_historical_player(
                       update_active_player(league, meta), meta)
         IN /\ league' = lg
            /\ _distribute_job(CHOOSE a \in ActorIds : TRUE, lg)

\* the updated player moves to the end of the active list
on_learner_player_meta_reorder(meta) ==
    IF meta.player_id \notin Range(active_players_ids(league))
    THEN /\ raised' = "NotFound"
         /\ UNCHANGED <<league, i, job_iter, emitted>>
    ELSE LET lg == create_historical_player(
                       update_active_player(league, meta), meta)
             keep == SelectSeq(lg.active_players,
                               LAMBDA q : q.player_id # meta.player_id)
             moved == SelectSeq(lg.active_players,
                                LAMBDA q : q.player_id = meta.player_id)
         IN /\ league' = [lg EXCEPT !.active_players = keep \o moved]
            /\ raised' = None
            /\ UNCHANGED <<i, job_iter, emitted>>

\* on_learner_player_meta(player_meta), lines 23-25: the two league calls and
\* nothing else; the generator, its counter and the task's emit are not
\* touched.  A player id the league does not hold makes update_active_player
\* fail with NotFound.  The handler catches nothing: the exception leaves it
\* on line 24, before line 25.
on_learner_player_meta(meta) ==
    IF meta.player_id \notin Range(active_players_ids(league))
    THEN /\ raised' = "NotFound"
         /\ UNCHANGED <<league, i, job_iter, emitted>>
    ELSE /\ league' = create_historical_player(
                          update_active_player(league, meta), meta)
         /\ raised' = None
         /\ UNCHANGED <<i, job_iter, emitted>>

----------------------------------------------------------------------------
(* main() of main_league.py *)

\* cfg.task.workers.items() flattened: one slot per worker, in order
RECURSIVE Slots(_)
Slots(ws) ==
    IF ws = <<>> THEN <<>>
    ELSE [k \in 1..ws[1][2] |-> ws[1][1]] \o Slots(Tail(ws))

Role(kind, player) == [role |-> kind, player |-> player]

\* the loop counter starts at 0 and is advanced before the test, so that the
\* slots are numbered from 1
RECURSIVE main_loop_from_one(_, _, _, _)
main_loop_from_one(slots, idx, inst, lg) ==
    IF slots = <<>> THEN [installed |-> inst, raised |-> None]
    ELSE LET worker == Head(slots) IN
         IF node_id # idx + 1
         THEN main_loop_from_one(Tail(slots), idx + 1, inst, lg)
         ELSE IF worker \in {"league_coordinator", "league_actor"}
         THEN main_loop_from_one(Tail(slots), idx + 1,
                                 Append(inst, Role(worker, None)), lg)
         ELSE IF worker = "league_learner"
              THEN LET n_players == Len(active_players_ids(lg)) IN
                   IF n_players = 0
                   THEN [installed |-> inst, raised |-> "ZeroDivisionError"]
                   ELSE main_loop_from_one(Tail(slots), idx + 1,
                            Append(inst, Role(worker,
                                lg.active_players[(node_id % n_players) + 1].player_id)),
                            lg)
         ELSE [installed |-> inst, raised |-> "ValueError"]

\* the loop without the test of the node id: every node installs every role
RECURSIVE main_loop_all(_, _, _, _)
main_loop_all(slots, idx, inst, lg) ==
    IF slots = <<>> THEN [installed |-> inst, raised |-> None]
    ELSE LET worker == Head(slots) IN
         IF worker \in {"league_coordinator", "league_actor"}
         THEN main_loop_all(Tail(slots), idx + 1,
                            Append(inst, Role(worker, None)), lg)
         ELSE IF worker = "league_learner"
              THEN LET n_players == Len(active_players_ids(lg)) IN
                   IF n_players = 0
                   THEN [installed |-> inst, raised |-> "ZeroDivisionError"]
                   ELSE main_loop_all(Tail(slots), idx + 1,
                            Append(inst, Role(worker,
                                lg.active_players[(node_id % n_players) + 1].player_id)),
                            lg)
         ELSE [installed |-> inst, raised |-> "ValueError"]

\* every learner is given the first active player
learner_player_first(k, lg) == lg.active_players[1].player_id

\* lines 55-56: the player of the learner on node k,
\* league.active_players[node_id % n_players] (sequences start at 1 here)
learner_player(k, lg) ==
    LET n_players == Len(active_players_ids(lg))
    IN lg.active_players[(k % n_players) + 1].player_id

\* lines 43-59: the loop over the slots; idx is the loop's i, inst what
\* task.use has been given so far.  Gives what was installed and the
\* exception that ended the loop, if any.
RECURSIVE main_loop(_, _, _, _)
main_loop(slots, idx, inst, lg) ==
    IF slots = <<>> THEN [installed |-> inst, raised |-> None]
    ELSE LET worker == Head(slots) IN
         IF node_id # idx THEN main_loop(Tail(slots), idx + 1, inst, lg)
         ELSE IF worker = "league_coordinator"
              THEN main_loop(Tail(slots), idx + 1,
                             Append(inst, Role(worker, None)), lg)
         ELSE IF worker = "league_actor"
              THEN main_loop(Tail(slots), idx + 1,
                             Append(inst, Role(worker, None)), lg)
         ELSE IF worker = "league_learner"
              THEN LET n_players == Len(active_players_ids(lg)) IN
                   IF n_players = 0
                   THEN [installed |-> inst, raised |-> "ZeroDivisionError"]
                   ELSE main_loop(Tail(slots), idx + 1,
                            Append(inst, Role(worker,
                                              learner_player(node_id, lg))),
                            lg)
         ELSE [installed |-> inst, raised |-> "ValueError"]

HasRole(inst, kind) == \E k \in DOMAIN inst : inst[k].role = kind

\* main(): exit(1) outside parallel mode; else the league is built, the roles
\* of this node are installed (LeagueCoordinator.__init__ creates the job
\* generator without running it) and task.run is reached unless the loop
\* raised
main ==
    /\ UNCHANGED wrapVars
    /\ pc = "start"
    /\ IF ~is_active
       THEN /\ pc' = "exit"
            /\ raised' = "SystemExit"
            /\ UNCHANGED <<installed, job_iter>>
       ELSE LET r == main_loop(Slots(workers), 0, <<>>, league) IN
            /\ installed' = r.installed
            /\ raised' = r.raised
            /\ pc' = IF r.raised = None THEN "running" ELSE "raised"
            /\ job_iter' = IF HasRole(r.installed, "league_coordinator")
                           THEN "created" ELSE job_iter
    /\ UNCHANGED <<finish, node_id, is_active, workers, league, i, emitted,
                   running, inflight, greeted, reported, handled, budget>>

\* the coordinator of this node is installed and the task is running
CoordinatorRunning == pc = "running" /\ HasRole(installed, "league_coordinator")

\* task.finish = True: the task is told to end, by this node or by a peer
set_finish ==
    /\ UNCHANGED wrapVars
    /\ pc = "running"
    /\ ~finish
    /\ extras < MaxExtra
    /\ finish' = TRUE
    /\ budget' = [budget EXCEPT !.finish = @ + 1]
    /\ UNCHANGED <<pc, node_id, is_active, workers, installed, league,
                   coordVars, raised, inflight, greeted, reported, handled>>

\* the call returns after its first test of the flag, whatever the flag is
__call__no_wait ==
    /\ UNCHANGED wrapVars
    /\ CoordinatorRunning
    /\ pc' = "done"
    /\ UNCHANGED <<finish, node_id, is_active, workers, installed,
                   league, coordVars, raised, peerVars, handled>>

\* LeagueCoordinator.__call__(ctx), lines 41-44: one test of the loop
\* condition.  While task.finish is false the pass is sleep(1) and nothing
\* else; once it is true the call returns and task.run ends with it.
__call__ ==
    /\ UNCHANGED wrapVars
    /\ CoordinatorRunning
    /\ IF ~finish
       THEN UNCHANGED vars
       ELSE /\ pc' = "done"
            /\ UNCHANGED <<finish, node_id, is_active, workers, installed,
                           league, coordVars, raised, peerVars, handled>>

----------------------------------------------------------------------------
(* The peers of the coordinator and the transport between them *)


Greeting(a) == [type |-> "greeting", actor_id |-> a]
JobResult(job) == [type |-> "job", job |-> job]
PlayerSnapshot(meta) == [type |-> "player_meta", meta |-> meta]

\* the topic an actor listens on for its jobs
Subscribed(a) == "league_job_actor_" \o a

\* an idle actor announces itself, once
ActorGreet ==
    /\ UNCHANGED wrapVars
    /\ CoordinatorRunning
    /\ \E a \in ActorIds \ greeted :
          /\ greeted' = greeted \cup {a}
          /\ inflight' = inflight \cup {Greeting(a)}
    /\ UNCHANGED <<mainVars, league, coordVars, raised, reported, handled, budget>>

\* an actor runs a job it saw on its topic and reports the job with its outcome
ActorReport ==
    /\ UNCHANGED wrapVars
    /\ CoordinatorRunning
    /\ \E a \in ActorIds, k \in DOMAIN emitted, r \in Outcomes :
          /\ k \notin reported
          /\ emitted[k].topic = Subscribed(a)
          /\ reported' = reported \cup {k}
          /\ inflight' = inflight \cup
                 {JobResult([emitted[k].job EXCEPT !.result = r])}
    /\ UNCHANGED <<mainVars, league, coordVars, raised, greeted, handled, budget>>

\* a learner announces a checkpoint of the active player it trains; a stale
\* announcement names a player the league does not hold
LearnerSnapshot ==
    /\ UNCHANGED wrapVars
    /\ CoordinatorRunning
    /\ extras < MaxExtra
    /\ \E p \in Range(active_players_ids(league)) \cup {StaleId} :
          inflight' = inflight \cup
              {PlayerSnapshot([player_id |-> p,
                               checkpoint |-> FirstCheckpoint + budget.snapshots + 1])}
    /\ budget' = [budget EXCEPT !.snapshots = @ + 1]
    /\ UNCHANGED <<mainVars, league, coordVars, raised, greeted, reported, handled>>

\* the job a long-dead actor a still reports: it names a player the league
\* does not hold and comes from no position of this coordinator's generator
StaleJob(a, r) ==
    [launch_player |-> StaleId,
     players |-> <<StaleId, PlayerIds[1]>>,
     actor_id |-> a,
     result |-> r,
     seq_pos |-> -1,
     player_num |-> 0,
     games_seen |-> 0]

\* a stale job result reaches the coordinator
StaleReport ==
    /\ UNCHANGED wrapVars
    /\ CoordinatorRunning
    /\ extras < MaxExtra
    /\ \E a \in ActorIds, r \in Outcomes :
          inflight' = inflight \cup {JobResult(StaleJob(a, r))}
    /\ budget' = [budget EXCEPT !.stale = @ + 1]
    /\ UNCHANGED <<mainVars, league, coordVars, raised, greeted, reported, handled>>

\* the actor id of a greeting sent with an empty actor_id
EmptyId == ""

\* an event without the identity its answer is addressed by: a greeting with
\* an empty actor_id, or the result of a job whose actor_id was never set
\* (the job as the league made it, with an outcome)
Unaddressed ==
    /\ UNCHANGED wrapVars
    /\ CoordinatorRunning
    /\ extras < MaxExtra
    /\ \/ inflight' = inflight \cup {Greeting(EmptyId)}
       \/ /\ Len(active_players_ids(league)) > 0
          /\ \E job \in get_job_info(league, active_players_ids(league)[1], -1),
                r \in Outcomes :
                inflight' = inflight \cup {JobResult([job EXCEPT !.result = r])}
    /\ budget' = [budget EXCEPT !.unaddressed = @ + 1]
    /\ UNCHANGED <<mainVars, league, coordVars, raised, greeted, reported, handled>>

\* register_active(player): a new active player joins the league, at the end
\* of the list; an id the league already holds is refused
register_active ==
    /\ UNCHANGED wrapVars
    /\ CoordinatorRunning
    /\ extras < MaxExtra
    /\ \E k \in DOMAIN PlayerIds :
          /\ PlayerIds[k] \notin Range(active_players_ids(league))
          /\ \A j \in 1..(k - 1) : PlayerIds[j] \in Range(active_players_ids(league))
          /\ league' = [league EXCEPT !.active_players =
                            Append(@, Player(PlayerIds[k], FirstCheckpoint))]
    /\ budget' = [budget EXCEPT !.register = @ + 1]
    /\ UNCHANGED <<mainVars, coordVars, raised, inflight, greeted, reported, handled>>

\* at-least-once delivery of m: it is consumed, or stays to be delivered again
Deliver(m) ==
    \/ /\ inflight' = inflight \ {m}
       /\ UNCHANGED budget
    \/ /\ extras < MaxExtra
       /\ inflight' = inflight
       /\ budget' = [budget EXCEPT !.redeliver = @ + 1]

HandleGreeting ==
    /\ UNCHANGED wrapVars
    /\ CoordinatorRunning
    /\ i < MaxJobs
    /\ \E m \in inflight :
          /\ m.type = "greeting"
          /\ on_actor_greeting(m.actor_id)
          /\ Deliver(m)
          /\ handled' = IF m.actor_id \in ActorIds
                         THEN [handled EXCEPT !.greeting[m.actor_id] = @ + 1]
                         ELSE [handled EXCEPT !.unaddressed = @ + 1]
    /\ UNCHANGED <<mainVars, running, greeted, reported>>

HandleJob ==
    /\ UNCHANGED wrapVars
    /\ CoordinatorRunning
    /\ i < MaxJobs
    /\ \E m \in inflight :
          /\ m.type = "job"
          /\ on_actor_job(m.job)
          /\ Deliver(m)
          /\ handled' = IF m.job.actor_id \notin ActorIds
                         THEN [handled EXCEPT !.unaddressed = @ + 1]
                         ELSE IF m.job.seq_pos \in DOMAIN handled.result
                         THEN [handled EXCEPT !.result[m.job.seq_pos] = @ + 1]
                         ELSE [handled EXCEPT !.stale_job = @ + 1]
    /\ UNCHANGED <<mainVars, running, greeted, reported>>

HandlePlayerMeta ==
    /\ UNCHANGED wrapVars
    /\ CoordinatorRunning
    /\ \E m \in inflight :
          /\ m.type = "player_meta"
          /\ on_learner_player_meta(m.meta)
          /\ Deliver(m)
          /\ handled' = IF m.meta.player_id # StaleId
                         THEN [handled EXCEPT !.meta = @ + 1]
                         ELSE [handled EXCEPT !.stale_meta = @ + 1]
    /\ UNCHANGED <<mainVars, running, greeted, reported>>

----------------------------------------------------------------------------

WorkerConfigs ==
    {<< <<"league_coordinator", 1>>, <<"league_actor", 2>>, <<"league_learner", 1>> >>,
     << <<"league_evaluator", 1>>, <<"league_actor", 1>> >>}

InitialActive == {<<>>, <<"A">>, <<"A", "B">>}

Init ==
    /\ WrappersIdle
    /\ pc = "start"
    /\ finish = FALSE
    /\ node_id \in 0..MaxNode
    /\ is_active \in BOOLEAN
    /\ workers \in WorkerConfigs
    /\ installed = <<>>
    /\ \E ids \in InitialActive : league = BaseLeague(ids)
    /\ i = 0
    /\ job_iter = "none"
    /\ emitted = <<>>
    /\ running = {}
    /\ raised = None
    /\ inflight = {}
    /\ greeted = {}
    /\ reported = {}
    /\ handled = [greeting |-> [a \in ActorIds |-> 0],
                  result |-> [k \in 0..(MaxJobs - 1) |-> 0],
                  meta |-> 0,
                  stale_job |-> 0,
                  stale_meta |-> 0,
                  unaddressed |-> 0]
    /\ budget = [redeliver |-> 0, snapshots |-> 0, register |-> 0, stale |-> 0,
                 finish |-> 0, unaddressed |-> 0]

Next ==
    \/ main
    \/ set_finish
    \/ __call__
    \/ ActorGreet
    \/ ActorReport
    \/ LearnerSnapshot
    \/ StaleReport
    \/ register_active
    \/ HandleGreeting
    \/ HandleJob
    \/ HandlePlayerMeta

Spec == Init /\ [][Next]_vars

\* the loop of __call__ is a running thread of the node: it goes on testing
\* task.finish
LoopSpec == Init /\ [][Next]_vars /\ WF_vars(__call__)

\* the same node with peers that may also send events without an actor id
OpenNext ==
    \/ main
    \/ set_finish
    \/ __call__
    \/ ActorGreet
    \/ ActorReport
    \/ LearnerSnapshot
    \/ StaleReport
    \/ Unaddressed
    \/ register_active
    \/ HandleGreeting
    \/ HandleJob
    \/ HandlePlayerMeta

OpenSpec == Init /\ [][OpenNext]_vars

----------------------------------------------------------------------------
(* The event path of the task as the source wires it.  A handler is called *)
(* for an event only if it was registered for it (task.on); an event       *)
(* nobody listens to is dropped.                                           *)

\* the event types for which LeagueCoordinator.__init__ registers a
\* handler: lines 14-18 store task, cfg and league and create the job
\* generator; no line calls task.on
registered == {}

\* the handler call for the delivered event m
call_handler(m) ==
    \/ /\ m.type = "greeting"
       /\ on_actor_greeting(m.actor_id)
       /\ handled' = [handled EXCEPT !.greeting[m.actor_id] = @ + 1]
    \/ /\ m.type = "job"
       /\ on_actor_job(m.job)
       /\ handled' = IF m.job.seq_pos \in DOMAIN handled.result
                      THEN [handled EXCEPT !.result[m.job.seq_pos] = @ + 1]
                      ELSE [handled EXCEPT !.stale_job = @ + 1]
    \/ /\ m.type = "player_meta"
       /\ on_learner_player_meta(m.meta)
       /\ handled' = IF m.meta.player_id # StaleId
                      THEN [handled EXCEPT !.meta = @ + 1]
                      ELSE [handled EXCEPT !.stale_meta = @ + 1]

\* the task takes an event that arrived at this node and hands it to the
\* handler registered for its type; without one the event is gone
route ==
    /\ UNCHANGED wrapVars
    /\ CoordinatorRunning
    /\ \E m \in inflight :
          /\ inflight' = inflight \ {m}
          /\ IF m.type \in registered
             THEN call_handler(m)
             ELSE UNCHANGED <<league, i, job_iter, emitted, raised, handled>>
    /\ UNCHANGED <<mainVars, running, greeted, reported, budget>>

\* ActorReport is not among the steps: it needs an emitted job
WiredNext ==
    \/ main
    \/ set_finish
    \/ __call__
    \/ ActorGreet
    \/ LearnerSnapshot
    \/ StaleReport
    \/ register_active
    \/ route

\* fair scheduling: a node that can start does, and the task goes on
\* taking the events that wait for it
WiredSpec ==
    Init /\ [][WiredNext]_vars /\ WF_vars(main) /\ WF_vars(route)

----------------------------------------------------------------------------
(* The handlers statement by statement.  Events of actors and learners     *)
(* arrive while a handler is at work; the event path of the task hands the *)
(* next event to its handler when the handler before it has returned (one  *)
(* consumer).  A handler call in progress is a record of running: the      *)
(* event, the statement it is at, the job it pulled, and the number of     *)
(* outcomes in the payoff when it was entered.                             *)

\* the first statement of the handler of m
entry(m) ==
    IF m.type = "greeting" THEN "next"
    ELSE IF m.type = "job" THEN "update_payoff"
    ELSE "update_active_player"

\* the actor the handler of m dispatches to
actor_of(m) == IF m.type = "greeting" THEN m.actor_id ELSE m.job.actor_id

\* handled, after the handler of m has returned or raised
counted(m) ==
    IF m.type = "greeting"
    THEN [handled EXCEPT !.greeting[m.actor_id] = @ + 1]
    ELSE IF m.type = "job"
    THEN IF m.job.seq_pos \in DOMAIN handled.result
         THEN [handled EXCEPT !.result[m.job.seq_pos] = @ + 1]
         ELSE [handled EXCEPT !.stale_job = @ + 1]
    ELSE IF m.meta.player_id # StaleId
         THEN [handled EXCEPT !.meta = @ + 1]
         ELSE [handled EXCEPT !.stale_meta = @ + 1]

\* act moves on to the statement at
goto(act, at) == (running \ {act}) \cup {[act EXCEPT !.at = at]}

\* the event path takes an event and enters its handler, when no handler
\* call is in progress
accept ==
    /\ UNCHANGED wrapVars
    /\ CoordinatorRunning
    /\ running = {}
    /\ i < MaxJobs
    /\ \E m \in inflight :
          /\ inflight' = inflight \ {m}
          /\ running' = {[ev |-> m, at |-> entry(m), job |-> <<>>,
                          payoff_seen |-> games(league.payoff)]}
    /\ UNCHANGED <<mainVars, league, i, job_iter, emitted, raised, greeted,
                   reported, handled, budget>>

\* the handler returns after the payoff update and has the next job asked
\* for by a greeting it sends to itself
step_update_payoff_requeue ==
    /\ UNCHANGED wrapVars
    /\ \E act \in running :
          /\ act.at = "update_payoff"
          /\ running' = running \ {act}
          /\ handled' = counted(act.ev)
          /\ IF ~known_players(league, act.ev.job)
             THEN /\ raised' = "UnknownPlayer"
                  /\ UNCHANGED <<league, inflight>>
             ELSE /\ league' = update_payoff(league, act.ev.job)
                  /\ inflight' = inflight \cup {Greeting(act.ev.job.actor_id)}
                  /\ raised' = None
    /\ UNCHANGED <<mainVars, i, job_iter, emitted, greeted, reported, budget>>

\* on_actor_job, line 29: self.league.update_payoff(job)
step_update_payoff ==
    /\ UNCHANGED wrapVars
    /\ \E act \in running :
          /\ act.at = "update_payoff"
          /\ IF ~known_players(league, act.ev.job)
             THEN /\ raised' = "UnknownPlayer"
                  /\ running' = running \ {act}
                  /\ handled' = counted(act.ev)
                  /\ UNCHANGED league
             ELSE /\ league' = update_payoff(league, act.ev.job)
                  /\ running' = goto(act, "next")
                  /\ UNCHANGED <<raised, handled>>
    /\ UNCHANGED <<mainVars, i, job_iter, emitted, inflight, greeted, reported,
                   budget>>

\* _distribute_job, line 47: job = next(self._job_iter), which runs lines
\* 35-39 of the generator up to the yield
step_next ==
    /\ UNCHANGED wrapVars
    /\ \E act \in running :
          /\ act.at = "next"
          /\ IF job_iter = "closed"
             THEN /\ raised' = "StopIteration"
                  /\ running' = running \ {act}
                  /\ handled' = counted(act.ev)
                  /\ UNCHANGED <<i, job_iter>>
             ELSE LET ids == active_players_ids(league)
                      player_num == Len(ids)
                  IN IF player_num = 0
                     THEN /\ raised' = "ZeroDivisionError"
                          /\ job_iter' = "closed"
                          /\ running' = running \ {act}
                          /\ handled' = counted(act.ev)
                          /\ UNCHANGED i
                     ELSE \E job \in get_job_info(league, select_player_id(ids, i), i) :
                             /\ i' = i + 1
                             /\ job_iter' = "suspended"
                             /\ running' = (running \ {act}) \cup
                                    {[act EXCEPT !.at = "emit", !.job = <<job>>]}
                             /\ UNCHANGED <<raised, handled>>
    /\ UNCHANGED <<mainVars, league, emitted, inflight, greeted, reported, budget>>

\* _distribute_job, lines 48-52: the job is bound and emitted, and the
\* handler returns
step_emit ==
    /\ UNCHANGED wrapVars
    /\ \E act \in running :
          /\ act.at = "emit"
          /\ emitted' = Append(emitted,
                 [topic |-> Format(actor_of(act.ev)),
                  job |-> bind_actor_id(act.job[1], actor_of(act.ev))])
          /\ raised' = None
          /\ running' = running \ {act}
          /\ handled' = counted(act.ev)
    /\ UNCHANGED <<mainVars, league, i, job_iter, inflight, greeted, reported,
                   budget>>

\* on_learner_player_meta, line 24: self.league.update_active_player(meta)
step_update_active_player ==
    /\ UNCHANGED wrapVars
    /\ \E act \in running :
          /\ act.at = "update_active_player"
          /\ IF act.ev.meta.player_id \notin Range(active_players_ids(league))
             THEN /\ raised' = "NotFound"
                  /\ running' = running \ {act}
                  /\ handled' = counted(act.ev)
                  /\ UNCHANGED league
             ELSE /\ league' = update_active_player(league, act.ev.meta)
                  /\ running' = goto(act, "create_historical_player")
                  /\ UNCHANGED <<raised, handled>>
    /\ UNCHANGED <<mainVars, i, job_iter, emitted, inflight, greeted, reported,
                   budget>>

\* on_learner_player_meta, line 25: self.league.create_historical_player(meta),
\* and the handler returns
step_create_historical_player ==
    /\ UNCHANGED wrapVars
    /\ \E act \in running :
          /\ act.at = "create_historical_player"
          /\ league' = create_historical_player(league, act.ev.meta)
          /\ raised' = None
          /\ running' = running \ {act}
          /\ handled' = counted(act.ev)
    /\ UNCHANGED <<mainVars, i, job_iter, emitted, inflight, greeted, reported,
                   budget>>

\* the coordinator node after main(): the coordinator is installed and the
\* task runs
StepsInit ==
    /\ WrappersIdle
    /\ pc = "running"
    /\ finish = FALSE
    /\ node_id = 0
    /\ is_active = TRUE
    /\ workers = << <<"league_coordinator", 1>>, <<"league_actor", 2>>,
                    <<"league_learner", 1>> >>
    /\ installed = <<Role("league_coordinator", None)>>
    /\ \E ids \in InitialActive : league = BaseLeague(ids)
    /\ i = 0
    /\ job_iter = "created"
    /\ emitted = <<>>
    /\ running = {}
    /\ raised = None
    /\ inflight = {}
    /\ greeted = {}
    /\ reported = {}
    /\ handled = [greeting |-> [a \in ActorIds |-> 0],
                  result |-> [k \in 0..(MaxJobs - 1) |-> 0],
                  meta |-> 0,
                  stale_job |-> 0,
                  stale_meta |-> 0,
                  unaddressed |-> 0]
    /\ budget = [redeliver |-> 0, snapshots |-> 0, register |-> 0, stale |-> 0,
                 finish |-> 0, unaddressed |-> 0]

StepsNext ==
    \/ ActorGreet
    \/ ActorReport
    \/ LearnerSnapshot
    \/ StaleReport
    \/ accept
    \/ step_update_payoff
    \/ step_next
    \/ step_emit
    \/ step_update_active_player
    \/ step_create_historical_player

StepsSpec == StepsInit /\ [][StepsNext]_vars

----------------------------------------------------------------------------
(* Properties *)

ids_now == active_players_ids(league)

RECURSIVE SumOver(_, _)
SumOver(f, S) ==
    IF S = {} THEN 0
    ELSE LET x == CHOOSE y \in S : TRUE IN f[x] + SumOver(f, S \ {x})

\* positions of emitted that carry a job for actor a
JobsOf(a) == {k \in DOMAIN emitted : emitted[k].job.actor_id = a}

\* results handled for jobs of actor a, every delivery counted
ResultsFor(a) == SumOver(handled.result, {k - 1 : k \in JobsOf(a)})

\* jobs dispatched to a whose result has not been handled
Outstanding(a) == Cardinality(JobsOf(a)) - ResultsFor(a)

\* how often p is primary in the M dispatches that start at position s
PrimaryCount(p, s, M) ==
    Cardinality({k \in s..(s + M - 1) : emitted[k].job.launch_player = p})

LastEmitted == emitted[Len(emitted)]

\* all outcomes the payoff holds for the ordered pair key
recorded(pay, key) == stat(pay, key).wins + stat(pay, key).draws + stat(pay, key).losses

\* every job so far was made from the list of active players of now (the
\* list only grows, so the same length is the same list)
ListFixed == \A k \in DOMAIN emitted : emitted[k].job.player_num = Len(ids_now)

\* C1: while the list of active ids stays the same, N >= 1 long, the k-th
\* job produced (k from 0, over all dispatches, from greetings and from
\* results) is for the primary ids[k mod N]; so in any M consecutive
\* dispatches each active player is primary floor(M/N) or ceil(M/N) times.
C1_RoundRobin ==
    (ListFixed /\ Len(ids_now) >= 1) =>
        LET N == Len(ids_now) IN
        /\ \A k \in DOMAIN emitted :
              /\ emitted[k].job.seq_pos = k - 1
              /\ emitted[k].job.launch_player = ids_now[((k - 1) % N) + 1]
        /\ \A s \in DOMAIN emitted : \A M \in 0..(Len(emitted) - s + 1) :
              \A n \in 1..N :
                 PrimaryCount(ids_now[n], s, M) \in {M \div N, (M + N - 1) \div N}

C1_Witness ==
    /\ ListFixed
    /\ ids_now = <<"A", "B">>
    /\ Len(emitted) = 3
    /\ emitted[3].job.launch_player = "A"
    /\ handled.result[0] = 1

\* C2 as claimed: whatever events are delivered, redeliveries included, no
\* actor ever has more than one job dispatched and not reported back.
C2_AtMostOneOutstanding == \A a \in ActorIds : Outstanding(a) <= 1

\* C2, amended: as long as no event has been delivered a second time, no
\* actor has more than one job dispatched and not reported back.
C2_AtMostOneOutstandingOnce ==
    budget.redeliver = 0 => \A a \in ActorIds : Outstanding(a) <= 1

C2_Witness ==
    /\ budget.redeliver = 0
    /\ handled.greeting["X"] = 1
    /\ ResultsFor("X") = 2
    /\ Outstanding("X") = 1

\* the generator can yield: the league has an active player and no earlier
\* next() ended the generator
CanYield == Len(ids_now) >= 1 /\ job_iter # "closed"

\* C3: handling a greeting of actor a pulls one job (the counter moves by
\* one) and appends exactly one message to what was emitted, on the topic a
\* listens on, carrying the job of the pulled position with actor_id = a,
\* never unset; that job was not emitted before, and the league is left
\* alone.  Only when the generator cannot yield is nothing pulled, and then
\* nothing is emitted either.
C3_GreetingDispatch ==
    [][\A a \in ActorIds :
          handled'.greeting[a] = handled.greeting[a] + 1 =>
          IF ~CanYield
          THEN i' = i /\ emitted' = emitted /\ raised' # None
          ELSE
             /\ i' = i + 1
             /\ Len(emitted') = Len(emitted) + 1
             /\ SubSeq(emitted', 1, Len(emitted)) = emitted
             /\ emitted'[Len(emitted')].topic = Subscribed(a)
             /\ emitted'[Len(emitted')].job.actor_id = a
             /\ emitted'[Len(emitted')].job.actor_id # None
             /\ emitted'[Len(emitted')].job.seq_pos = i
             /\ \A k \in DOMAIN emitted :
                   emitted[k].job.seq_pos # emitted'[Len(emitted')].job.seq_pos
             /\ league' = league]_vars

C3_Witness ==
    /\ handled.greeting["Y"] = 1
    /\ Len(emitted) = 2
    /\ LastEmitted.job.actor_id = "Y"
    /\ LastEmitted.topic = Subscribed("Y")

\* C4: handling a result of a job of actor a adds exactly one outcome to the
\* payoff (to the job's pair, nothing else changes), then sends exactly one
\* new job to a, and that job was made from the payoff as updated.
C4_ResultThenDispatch ==
    [][\A k \in DOMAIN emitted :
          handled'.result[k - 1] = handled.result[k - 1] + 1
          => LET a == emitted[k].job.actor_id
                 key == emitted[k].job.players
                 new == emitted'[Len(emitted')]
             IN /\ games(league'.payoff) = games(league.payoff) + 1
                /\ recorded(league'.payoff, key) = recorded(league.payoff, key) + 1
                /\ Len(emitted') = Len(emitted) + 1
                /\ SubSeq(emitted', 1, Len(emitted)) = emitted
                /\ new.job.actor_id = a
                /\ new.topic = Subscribed(a)
                /\ new.job.seq_pos = i
                /\ new.job.games_seen = games(league'.payoff)]_vars

C4_Witness ==
    /\ handled.result[0] = 1
    /\ Len(emitted) = 2
    /\ LastEmitted.job.games_seen = 1
    /\ LastEmitted.job.actor_id = emitted[1].job.actor_id

\* C5: every job message is on the topic made from its own actor_id, the
\* topics of different actors differ, and a message that an actor b can see
\* on its topic carries a job bound to b.
C5_AddressedDispatch ==
    /\ \A k \in DOMAIN emitted : emitted[k].topic = Format(emitted[k].job.actor_id)
    /\ \A a, b \in ActorIds : a # b => Format(a) # Format(b)
    /\ \A k \in DOMAIN emitted : \A b \in ActorIds :
          emitted[k].topic = Subscribed(b) => emitted[k].job.actor_id = b
    /\ \A k \in DOMAIN emitted : \E b \in ActorIds : emitted[k].topic = Subscribed(b)

C5_Witness ==
    /\ JobsOf("X") # {}
    /\ JobsOf("Y") # {}
    /\ \A k \in JobsOf("X") : emitted[k].topic # Subscribed("Y")

ResultsHandled == SumOver(handled.result, DOMAIN handled.result)

\* the coordinator of a league built with [A, B] has handled one greeting, of
\* X, and then n results, with no other greeting and no registration
Scenario(n) ==
    /\ budget.register = 0
    /\ ids_now = <<"A", "B">>
    /\ handled.greeting = [a \in ActorIds |-> IF a = "X" THEN 1 ELSE 0]
    /\ ResultsHandled = n

\* C6: league [A, B], fresh coordinator.  After the greeting of X one job is
\* out, primary A, bound to X, on the topic of X, and the payoff is empty.
\* After X's result for it the payoff holds exactly one outcome, for that
\* job's pair, and a second job is out, bound to X on X's topic, primary B.
C6_EndToEnd ==
    /\ Scenario(0) =>
          /\ Len(emitted) = 1
          /\ emitted[1].job.launch_player = "A"
          /\ emitted[1].job.actor_id = "X"
          /\ emitted[1].topic = Subscribed("X")
          /\ games(league.payoff) = 0
    /\ Scenario(1) =>
          /\ Len(emitted) = 2
          /\ emitted[1].job.launch_player = "A"
          /\ games(league.payoff) = 1
          /\ recorded(league.payoff, emitted[1].job.players) = 1
          /\ emitted[2].job.launch_player = "B"
          /\ emitted[2].job.actor_id = "X"
          /\ emitted[2].topic = Subscribed("X")

C6_Witness ==
    /\ Scenario(1)
    /\ Len(emitted) = 2
    /\ emitted[1].job.players = <<"A", "B">>
    /\ stat(league.payoff, <<"A", "B">>).wins = 1

\* C7: results are not deduplicated.  Every delivery of a result counts in
\* the payoff: the outcomes recorded for a pair are the deliveries handled
\* for the jobs of that pair, repeated ones included; and every delivery
\* sends a follow-up job: the jobs sent to an actor with handled results are
\* its greetings handled plus the result deliveries handled for it.
C7_NoDeduplication ==
    /\ \A key \in DOMAIN league.payoff :
          recorded(league.payoff, key) =
              SumOver(handled.result,
                      {k - 1 : k \in {j \in DOMAIN emitted : emitted[j].job.players = key}})
    /\ games(league.payoff) = ResultsHandled
    /\ \A a \in ActorIds :
          ResultsFor(a) > 0 =>
              Cardinality(JobsOf(a)) = handled.greeting[a] + ResultsFor(a)

C7_Witness ==
    /\ handled.result[0] = 2
    /\ recorded(league.payoff, emitted[1].job.players) = 2
    /\ Cardinality(reported) = 1
    /\ Len(emitted) = 3

\* C8: handling player_snapshot(active = p, checkpoint = c) gives the active
\* player p the checkpoint c and appends exactly one historical player, made
\* from p with checkpoint c; the list of active ids and the checkpoints of
\* the other active players stay as they were.
C8_Promotion ==
    [][handled'.meta = handled.meta + 1 =>
          \E m \in inflight :
             /\ m.type = "player_meta"
             /\ LET p == m.meta.player_id
                    c == m.meta.checkpoint
                    hist == league.historical_players
                    hist2 == league'.historical_players
                IN /\ p \in Range(ids_now)
                   /\ checkpoint_of(league', p) = c
                   /\ Len(hist2) = Len(hist) + 1
                   /\ SubSeq(hist2, 1, Len(hist)) = hist
                   /\ hist2[Len(hist2)].parent_id = p
                   /\ hist2[Len(hist2)].checkpoint = c
                   /\ hist2[Len(hist2)].player_id \notin Range(ids_now)
                   /\ active_players_ids(league') = ids_now
                   /\ \A q \in Range(ids_now) \ {p} :
                         checkpoint_of(league', q) = checkpoint_of(league, q)]_vars

C8_Witness ==
    /\ handled.meta = 1
    /\ Len(league.historical_players) = 1
    /\ league.historical_players[1].parent_id = "A"
    /\ league.historical_players[1].checkpoint = FirstCheckpoint + 1
    /\ checkpoint_of(league, "A") = FirstCheckpoint + 1
    /\ ids_now = <<"A", "B">>

\* exceptions the interpreter raises by itself from the statements of the
\* generator and of next(): none is a configuration error raised on purpose
GenericExceptions == {"ZeroDivisionError", "StopIteration"}

GreetingsHandled == SumOver(handled.greeting, ActorIds)

\* C9: a dispatch request against a league without active players fails with
\* a fatal configuration-class error, not a generic exception from inside the
\* loop, and emits no job message.
C9_ZeroActiveFatal ==
    (CoordinatorRunning /\ Len(ids_now) = 0 /\ GreetingsHandled > 0) =>
        /\ raised # None
        /\ raised \notin GenericExceptions
        /\ emitted = <<>>

\* the slot of this node holds the coordinator
CoordinatorNode ==
    /\ node_id + 1 \in DOMAIN Slots(workers)
    /\ Slots(workers)[node_id + 1] = "league_coordinator"

\* C10: with a league without active players the coordinator node fails in
\* main(), before task.run: once main() is over the node has raised.
C10_FailFast ==
    (is_active /\ CoordinatorNode /\ Len(ids_now) = 0 /\ pc # "start") =>
        pc = "raised"

\* the worker kinds main() has a branch for (lines 48, 50, 52)
KnownKinds == {"league_coordinator", "league_actor", "league_learner"}

\* cfg.task.workers names a kind main() has no branch for
UnknownKindConfigured ==
    \E k \in DOMAIN Slots(workers) : Slots(workers)[k] \notin KnownKinds

\* C11: when the workers configuration names an unknown kind, main() ends
\* with an error on every node, whatever its id, and the task is never run.
C11_UnknownKindFatal ==
    (is_active /\ UnknownKindConfigured /\ pc # "start") =>
        /\ pc = "raised"
        /\ raised = "ValueError"

\* C12: handling a snapshot that names an unregistered active id is reported
\* and dropped inside the coordinator: no exception leaves the handler, no
\* historical player is created, the active players, the job counter, the
\* generator and what was emitted stay as they were, so that later events
\* are handled as if the snapshot had not come.
C12_StaleSnapshotDropped ==
    [][handled'.stale_meta = handled.stale_meta + 1 =>
          /\ raised' = None
          /\ league' = league
          /\ i' = i
          /\ job_iter' = job_iter
          /\ emitted' = emitted]_vars

\* C13: handling a job result that names an unknown player is logged and
\* dropped inside the coordinator: no exception leaves the handler, the
\* payoff and the rest of the league stay as they were, and the counter, the
\* generator and the jobs emitted to the actors are untouched.
C13_StaleResultDropped ==
    [][handled'.stale_job = handled.stale_job + 1 =>
          /\ raised' = None
          /\ league' = league
          /\ i' = i
          /\ job_iter' = job_iter
          /\ emitted' = emitted]_vars

\* a step in which a handler asks for a job: a greeting is handled, or the
\* result of a job of this coordinator
DispatchRequested ==
    \/ \E a \in ActorIds : handled'.greeting[a] = handled.greeting[a] + 1
    \/ \E k \in DOMAIN handled.result : handled'.result[k] = handled.result[k] + 1

\* C14: the job sequence does not end.  A request made while the league has
\* an active player and the generator has not been ended obtains a job,
\* whatever the counter is: the counter moves, one message is emitted and
\* nothing is raised.  The generator is ended only by a request made with no
\* active player, end-of-sequence is signalled only after that, and so never
\* while every call finds an active player.
C14_InfiniteSequence ==
    [][/\ (DispatchRequested /\ Len(ids_now) >= 1 /\ job_iter # "closed") =>
             /\ i' = i + 1
             /\ Len(emitted') = Len(emitted) + 1
             /\ raised' = None
             /\ job_iter' = "suspended"
       /\ (job_iter' = "closed" /\ job_iter # "closed") =>
             /\ DispatchRequested
             /\ Len(ids_now) = 0
       /\ (DispatchRequested /\ raised' = "StopIteration") => job_iter = "closed"]_vars

C14_Witness ==
    /\ i = MaxJobs
    /\ Len(emitted) = MaxJobs
    /\ job_iter = "suspended"
    /\ raised = None
    /\ ResultsHandled = MaxJobs - 1

\* C15: positions of the job sequence are neither reused nor skipped.  No
\* step resets or rewinds the counter; it grows by exactly one exactly when
\* one job message is added; after M dispatches it is M; and the M jobs
\* dispatched, from greetings and from results, were made at the positions
\* 0 .. M-1 in order, each position once.
C15_PositionsOnce ==
    [][/\ i' \in {i, i + 1}
       /\ (i' = i + 1) <=> (Len(emitted') = Len(emitted) + 1)
       /\ (i' = i) <=> (emitted' = emitted)
       /\ SubSeq(emitted', 1, Len(emitted)) = emitted
       /\ i' = Len(emitted')
       /\ \A k \in DOMAIN emitted' : emitted'[k].job.seq_pos = k - 1
       /\ \A j, k \in DOMAIN emitted' :
             j # k => emitted'[j].job.seq_pos # emitted'[k].job.seq_pos]_vars

C15_Witness ==
    /\ i = 3
    /\ handled.greeting = [a \in ActorIds |-> 1]
    /\ ResultsHandled = 1
    /\ {emitted[k].job.seq_pos : k \in DOMAIN emitted} = {0, 1, 2}

\* C16: the list of active ids and its length are read anew at every call.
\* The job produced at counter value k has the primary ids_k[k mod N_k], ids_k
\* and N_k being the list and its length in the league at that call, whatever
\* the length was at earlier calls; the jobs emitted before stay as they
\* were.
C16_ChangingCount ==
    [][i' = i + 1 =>
          LET new == emitted'[Len(emitted')]
              N == Len(ids_now)
          IN /\ N >= 1
             /\ new.job.player_num = N
             /\ new.job.seq_pos = i
             /\ new.job.launch_player = ids_now[(i % N) + 1]
             /\ SubSeq(emitted', 1, Len(emitted)) = emitted]_vars

\* the count changed between calls and the selection followed it: [A] at the
\* first call, [A, B] at the second, which selects ids[1 mod 2] = B
C16_Witness ==
    /\ Len(emitted) >= 2
    /\ emitted[1].job.player_num = 1
    /\ emitted[1].job.launch_player = "A"
    /\ emitted[2].job.player_num = 2
    /\ emitted[2].job.launch_player = "B"

\* C18: a job message for actor a is emitted only as the direct response to
\* a greeting of a or to a result of a job of a: every step changes the
\* number of messages emitted to a by exactly one when it handles such an
\* event of a without an error, and by nothing otherwise; so the messages
\* emitted to a are as many as its greetings and results handled without
\* error, and never more than it sent events.  What an actor has or has not
\* reported is no condition of handling the events of another: whenever an
\* event is in flight and the bound on the counter is not reached, its
\* handler can run.
C18_ActorIsolation ==
    /\ [][\A a \in ActorIds :
             LET got == Cardinality(JobsOf(a)') - Cardinality(JobsOf(a))
                 greet == handled'.greeting[a] = handled.greeting[a] + 1
                 result == \E k \in JobsOf(a) :
                              handled'.result[k - 1] = handled.result[k - 1] + 1
             IN got = IF (greet \/ result) /\ raised' = None THEN 1 ELSE 0]_vars
    /\ [](\A a \in ActorIds :
             Cardinality(JobsOf(a)) <= handled.greeting[a] + ResultsFor(a))
    /\ []((CoordinatorRunning /\ i < MaxJobs) =>
             /\ (\E m \in inflight : m.type = "greeting") => ENABLED HandleGreeting
             /\ (\E m \in inflight : m.type = "job") => ENABLED HandleJob)

\* X has gone silent with a job it never reported, while Y was given a job
\* and, after its result, another one
C18_Witness ==
    /\ Cardinality(JobsOf("X")) = 1
    /\ ResultsFor("X") = 0
    /\ Cardinality(JobsOf("Y")) = 2
    /\ ResultsFor("Y") = 1
    /\ emitted[1].job.actor_id = "X"

\* C19: once task.finish is true the coordinator accepts no event: a
\* greeting, a job result or a snapshot handed to its handlers from then on
\* adds no job message and changes neither the league nor the job counter.
C19_ShutdownStopsEvents ==
    [][(finish /\ handled' # handled) =>
          /\ emitted' = emitted
          /\ league' = league
          /\ i' = i]_vars

\* C20: the payoff is written only while a job result is handled, once per
\* handled result.  A step that changes the payoff is a step of on_actor_job
\* and adds exactly one outcome; every handled result of a job of this
\* coordinator adds exactly one; handling a greeting or a snapshot, a pass
\* of the idle loop and its return leave the payoff as it was (and so does
\* a stale result, whose update fails); hence the outcomes in the payoff
\* are as many as the results handled.
C20_PayoffOnlyForResults ==
    [][LET result == \E k \in DOMAIN handled.result :
                        handled'.result[k] = handled.result[k] + 1
       IN /\ league'.payoff # league.payoff => result
          /\ result => games(league'.payoff) = games(league.payoff) + 1
          /\ ~result => league'.payoff = league.payoff
          /\ games(league'.payoff) = ResultsHandled']_vars

C20_Witness ==
    /\ GreetingsHandled = 1
    /\ handled.meta = 1
    /\ ResultsHandled = 1
    /\ games(league.payoff) = 1

----------------------------------------------------------------------------
\* a learner's snapshot, stale or not, is handled by this step
SnapshotHandled ==
    \/ handled'.meta = handled.meta + 1
    \/ handled'.stale_meta = handled.stale_meta + 1

\* C21: handling a learner's player snapshot is fire-and-forget.  The step
\* that handles one emits no message, to an actor or to a learner, pulls no
\* job from the job iterator (the generator stays where it was) and leaves
\* the round-robin counter as it was.
C21_SnapshotFireAndForget ==
    [][SnapshotHandled =>
          /\ emitted' = emitted
          /\ job_iter' = job_iter
          /\ i' = i]_vars

\* a snapshot of A was handled between two dispatches: the job made after it
\* has the next position and no other message was emitted
C21_Witness ==
    /\ handled.meta = 1
    /\ Len(league.historical_players) = 1
    /\ Len(emitted) = 2
    /\ i = 2
    /\ emitted[2].job.players[2] \notin Range(ids_now)

----------------------------------------------------------------------------
\* C22: an event without its addressing identity (a greeting with an empty
\* actor_id, a job result whose job.actor_id is unset) is surfaced as an
\* error: the step that handles it ends with an exception, pulls no job from
\* the iterator and emits nothing, so that no message is ever on a topic
\* built from an empty or unset actor id.
C22_MissingIdentityRefused ==
    [][/\ handled'.unaddressed = handled.unaddressed + 1 =>
             /\ raised' # None
             /\ i' = i
             /\ job_iter' = job_iter
             /\ emitted' = emitted
       /\ \A k \in DOMAIN emitted' :
             emitted'[k].topic \notin {Format(EmptyId), Format(None)}]_vars

----------------------------------------------------------------------------
\* C23: single writer.  The league the coordinator reads for matchmaking is
\* changed only by steps of the coordinator's node: by its event handlers
\* (and by the registration of a player in that league); a step in which an
\* actor or a learner sends an event changes nothing of it.  On the node of
\* the coordinator no other role is installed, so that no actor and no
\* learner holds the league or a player of it.
C23_SingleWriter ==
    [][/\ league' # league =>
             \/ handled' # handled
             \/ budget'.register = budget.register + 1
       /\ (inflight' # inflight /\ handled' = handled) => league' = league
       /\ HasRole(installed', "league_coordinator") =>
             /\ Len(installed') = 1
             /\ \A k \in DOMAIN installed' : installed'[k].player = None]_vars

\* the coordinator, alone on its node, has updated the payoff for a result
\* and made a historical player for a snapshot that peers sent
C23_Witness ==
    /\ CoordinatorRunning
    /\ Len(installed) = 1
    /\ games(league.payoff) = 1
    /\ Len(league.historical_players) = 1

----------------------------------------------------------------------------
\* C24: responsiveness.  Under fair scheduling a greeting of an actor that
\* waits at a running coordinator whose league has an active player (and
\* whose job generator has not failed) is eventually answered by a job
\* message on that actor's topic, unless the coordinator stops first: the
\* events the coordinator is to receive reach its handlers.
C24_Responsive ==
    \A a \in ActorIds :
       (/\ CoordinatorRunning
        /\ Len(ids_now) > 0
        /\ job_iter # "closed"
        /\ Greeting(a) \in inflight)
           ~> \/ \E k \in DOMAIN emitted : emitted[k].topic = Subscribed(a)
              \/ ~CoordinatorRunning

----------------------------------------------------------------------------
\* C25: a failed job generation is local to its request.  Whatever failed
\* before, a dispatch request made while the league has an active player
\* obtains a job: one message is emitted, nothing is raised, and the job is
\* made at the position the counter holds, the one a failed request left
\* unused.
C25_FailureIsLocal ==
    [][(DispatchRequested /\ Len(ids_now) >= 1) =>
          /\ raised' = None
          /\ Len(emitted') = Len(emitted) + 1
          /\ emitted'[Len(emitted')].job.seq_pos = i
          /\ i' = i + 1]_vars

----------------------------------------------------------------------------
\* C26: when the league's payoff update raises while a job result is being
\* handled, the handler stops there.  The step that handles a result naming
\* a player the league does not hold ends with the league's exception, pulls
\* no job from the iterator, does not advance the round-robin counter, emits
\* no job message for that actor, and leaves the league as it was.
C26_PayoffFailureStops ==
    [][handled'.stale_job = handled.stale_job + 1 =>
          /\ raised' = "UnknownPlayer"
          /\ job_iter' = job_iter
          /\ i' = i
          /\ emitted' = emitted
          /\ league' = league]_vars

\* a job was dispatched to an actor; then a result whose payoff update raised
\* was handled: the one job is all that was emitted
C26_Witness ==
    /\ handled.stale_job = 1
    /\ raised = "UnknownPlayer"
    /\ i = 1
    /\ Len(emitted) = 1
    /\ job_iter = "suspended"

----------------------------------------------------------------------------
\* C27: snapshots never disturb the matchmaking order.  A step that handles
\* a learner's snapshot creates at most a historical player: the list of
\* active player ids is the same after it as before (nothing removed, added
\* or moved), so the round-robin modulus and the player each position of the
\* sequence selects are the same; by induction the same holds for any
\* sequence of snapshots.
C27_SnapshotsKeepOrder ==
    [][SnapshotHandled =>
          /\ active_players_ids(league') = ids_now
          /\ Len(league'.active_players) = Len(league.active_players)
          /\ \A n \in 0..MaxJobs :
                Len(ids_now) > 0 =>
                   select_player_id(active_players_ids(league'), n) =
                       select_player_id(ids_now, n)
          /\ SubSeq(league'.historical_players, 1,
                    Len(league.historical_players)) = league.historical_players
          /\ Len(league'.historical_players) \in
                {Len(league.historical_players),
                 Len(league.historical_players) + 1}
          /\ league'.payoff = league.payoff]_vars

\* league [A, B]: the job before the snapshot of A is for A, the job after it
\* is for B, against the historical player the snapshot made
C27_Witness ==
    /\ handled.meta = 1
    /\ ids_now = <<"A", "B">>
    /\ Len(emitted) = 2
    /\ emitted[1].job.launch_player = "A"
    /\ emitted[2].job.launch_player = "B"
    /\ emitted[2].job.players[2] =
           league.historical_players[1].player_id
    /\ league.historical_players[1].parent_id = "A"

----------------------------------------------------------------------------
\* C28: the coordinator's main loop only waits.  The one step of __call__
\* that changes anything is its return: it is taken only with task.finish
\* true and changes nothing of the league, the generator, its counter, the
\* emitted messages or the events in flight (no dispatch, no league
\* mutation).  While task.finish is false the call has not returned, and
\* once task.finish is true the call returns.
C28_MainLoopWaits ==
    /\ [][(pc' = "done" /\ pc # "done") =>
             /\ CoordinatorRunning
             /\ finish
             /\ UNCHANGED <<finish, installed, league, coordVars, raised,
                            peerVars, handled>>]_vars
    /\ [](pc = "done" => finish)
    /\ (CoordinatorRunning /\ finish) ~> (pc = "done")

\* the coordinator dispatched a job, the task was told to finish and the
\* call returned
C28_Witness ==
    /\ pc = "done"
    /\ finish
    /\ HasRole(installed, "league_coordinator")
    /\ Len(emitted) >= 1

----------------------------------------------------------------------------
\* C29: role assignment by node id.  With the workers configuration
\* flattened in order into slots 0, 1, 2, ..., a node that has reached
\* task.run with an id below the number of slots has installed exactly one
\* role, the one of the slot with its id; a node whose id is not below the
\* number of slots has installed no role and has reached task.run all the
\* same.  A node that did not reach task.run (main raised for its own slot,
\* or left outside parallel mode) has installed nothing.
C29_RoleByNodeId ==
    LET slots == Slots(workers)
        ran == pc \in {"running", "done"}
    IN /\ (ran /\ node_id < Len(slots)) =>
             /\ Len(installed) = 1
             /\ installed[1].role = slots[node_id + 1]
       /\ (pc # "start" /\ is_active /\ node_id >= Len(slots)) =>
             /\ ran
             /\ installed = <<>>
       /\ pc \in {"start", "exit", "raised"} => installed = <<>>
       /\ pc = "raised" =>
             /\ node_id < Len(slots)
             /\ \/ slots[node_id + 1] \notin KnownKinds
                \/ /\ slots[node_id + 1] = "league_learner"
                   /\ Len(league.active_players) = 0

\* node 2 of (coordinator 1, actor 2, learner 1) runs the second actor slot
\* and nothing else
C29_Witness ==
    /\ pc = "running"
    /\ node_id = 2
    /\ Slots(workers) = <<"league_coordinator", "league_actor",
                          "league_actor", "league_learner">>
    /\ installed = <<Role("league_actor", None)>>

----------------------------------------------------------------------------
\* the largest number of consecutive learner nodes looked at: one more than
\* the league can have active players
MaxLearners == Len(PlayerIds) + 1

\* the players given to the learners on the L node ids from first on
Assigned(first, L) ==
    {learner_player(k, league) : k \in first..(first + L - 1)}

\* C30: learner-to-player assignment.  The learner installed on node k holds
\* active_players[k mod N] of the N active players.  For learners on L
\* consecutive node ids, wherever they start: with L >= N every active
\* player is the player of at least one learner, with L < N some active
\* player is the player of none.
C30_LearnerAssignment ==
    LET N == Len(ids_now)
    IN /\ \A k \in DOMAIN installed :
             installed[k].role = "league_learner" =>
                /\ N > 0
                /\ installed[k].player = ids_now[(node_id % N) + 1]
       /\ N > 0 =>
             LET active == Range(ids_now)
             IN \A first \in 0..MaxNode, L \in 1..MaxLearners :
                   LET given == Assigned(first, L)
                   IN IF L >= N THEN given = active
                      ELSE given \subseteq active /\ given # active

\* the learner of node 3 trains B, the second of the two active players
C30_Witness ==
    /\ pc = "running"
    /\ node_id = 3
    /\ ids_now = <<"A", "B">>
    /\ installed = <<Role("league_learner", "B")>>

----------------------------------------------------------------------------
(* The model wrappers of ding/model/wrapper/model_wrappers.py.  Each       *)
(* wrapper class is an object with its fields; a call of one of its        *)
(* methods is one step.  A specification below holds one wrapper object;   *)
(* the league and the other wrappers do not exist in it.                   *)

\* no league process exists: the wrapper specifications leave it alone
LeagueIdle ==
    /\ pc = None
    /\ finish = FALSE
    /\ node_id = 0
    /\ is_active = FALSE
    /\ workers = <<>>
    /\ installed = <<>>
    /\ league = None
    /\ i = 0
    /\ job_iter = "none"
    /\ emitted = <<>>
    /\ running = {}
    /\ raised = None
    /\ inflight = {}
    /\ greeted = {}
    /\ reported = {}
    /\ handled = None
    /\ budget = None

\* non-direct updates made on one target wrapper
MaxUpdates == 6
\* the largest update_kwargs['freq']
MaxFreq == 3

\* the state dicts a learner hands over: the parameters as one number each
StateDicts == {10, 20, 30}

\* update_kwargs['theta'] of the momentum update, as a fraction
theta == [num |-> 1, den |-> 2]

\* (1 - theta) * p.data + theta * state_dict[name], in whole numbers
momentum(p, s) == ((theta.den - theta.num) * p + theta.num * s) \div theta.den

----------------------------------------------------------------------------
(* TargetNetworkWrapper, lines 886-939 *)

\* TargetNetworkWrapper.__init__: the count starts at 0; _model is the
\* target network, here the parameters it holds
TargetNetworkWrapper(net, update_type, update_kwargs) ==
    [_model |-> net,
     _update_type |-> update_type,
     _update_kwargs |-> update_kwargs,
     _update_count |-> 0]

\* the count is tested before it is advanced: the load comes one call late
TargetNetworkWrapper_update_late(w, state_dict, direct) ==
    IF direct
    THEN [w EXCEPT !._model = state_dict, !._update_count = 0]
    ELSE IF w._update_type = "assign"
    THEN [w EXCEPT !._model = IF w._update_count % w._update_kwargs.freq = 0
                               THEN state_dict ELSE @,
                   !._update_count = @ + 1]
    ELSE [w EXCEPT !._model = momentum(@, state_dict)]

\* TargetNetworkWrapper.update(state_dict, direct), lines 907-929
TargetNetworkWrapper_update(w, state_dict, direct) ==
    IF direct
    THEN [w EXCEPT !._model = state_dict, !._update_count = 0]
    ELSE IF w._update_type = "assign"
    THEN [w EXCEPT !._model = IF (w._update_count + 1) % w._update_kwargs.freq = 0
                               THEN state_dict ELSE @,
                   !._update_count = @ + 1]
    ELSE [w EXCEPT !._model = momentum(@, state_dict)]

\* an optional argument is a sequence: empty when it is not given (None),
\* else the one value given
NotGiven == <<>>
Given(v) == <<v>>

\* TargetNetworkWrapper.reset_state(target_update_count), lines 931-939
TargetNetworkWrapper_reset_state(w, target_update_count) ==
    IF target_update_count # NotGiven
    THEN [w EXCEPT !._update_count = target_update_count[1]]
    ELSE w

\* the other variables of a specification that holds a target wrapper
TargetFrame ==
    UNCHANGED <<leagueVars, finer_target, hidden_state, hidden_state_ac,
                wrapper_name_map, model, action_trigger_noise>>

\* a call of update.  ret keeps the call and, in since_zero, how many
\* non-direct updates were made since the count was last put to 0 (-1 when a
\* reset gave it another value)
target_update ==
    /\ target._update_count < MaxUpdates
    /\ \E state_dict \in StateDicts, direct \in BOOLEAN :
          /\ target' = TargetNetworkWrapper_update(target, state_dict, direct)
          /\ ret' = [call |-> "update",
                     state_dict |-> Given(state_dict),
                     direct |-> direct,
                     target_update_count |-> NotGiven,
                     since_zero |-> IF direct THEN 0
                                    ELSE IF ret.since_zero < 0 THEN -1
                                    ELSE IF target._update_type = "assign"
                                    THEN ret.since_zero + 1
                                    ELSE ret.since_zero]
    /\ TargetFrame

\* a call of reset, with target_update_count or without; the target network
\* has no reset of its own
target_reset ==
    /\ \E c \in {NotGiven} \cup {Given(k) : k \in 0..MaxFreq} :
          /\ target' = TargetNetworkWrapper_reset_state(target, c)
          /\ ret' = [call |-> "reset",
                     state_dict |-> NotGiven,
                     direct |-> FALSE,
                     target_update_count |-> c,
                     since_zero |-> IF c = NotGiven THEN ret.since_zero
                                    ELSE IF c[1] = 0 THEN 0 ELSE -1]
    /\ TargetFrame

TargetInit ==
    /\ LeagueIdle
    /\ \E update_type \in {"assign", "momentum"}, freq \in 1..MaxFreq :
          target = TargetNetworkWrapper(0, update_type, [freq |-> freq])
    /\ ret = [call |-> "__init__", state_dict |-> NotGiven, direct |-> FALSE,
              target_update_count |-> NotGiven, since_zero |-> 0]
    /\ finer_target = None
    /\ hidden_state = None
    /\ hidden_state_ac = None
    /\ wrapper_name_map = None
    /\ model = None
    /\ action_trigger_noise = None

TargetNext ==
    \/ target_update
    \/ target_reset

TargetSpec == TargetInit /\ [][TargetNext]_vars

----------------------------------------------------------------------------
(* FinerTargetNetworkWrapper, lines 796-882.  The target network has the   *)
(* parameters whose names hold 'actor' and those whose names hold          *)
(* 'critic'; the wrapper has one _update_count for both methods.           *)

\* FinerTargetNetworkWrapper.__init__, lines 804-809
FinerTargetNetworkWrapper(net, update_type, update_kwargs) ==
    [_model |-> net,
     _update_type |-> update_type,
     _update_kwargs |-> update_kwargs,
     _update_count |-> 0]

\* the parameters of a network, all at the value v
Net(v) == [actor |-> v, critic |-> v]

\* update_actor (part = "actor", lines 817-843) and update_critic (part =
\* "critic", lines 846-872): the two methods differ in the name they look
\* for and in nothing else
FinerTargetNetworkWrapper_update(w, part, state_dict, direct) ==
    IF direct
    THEN [w EXCEPT !._model = state_dict, !._update_count = 0]
    ELSE IF w._update_type = "assign"
    THEN [w EXCEPT !._model[part] =
                       IF (w._update_count + 1) % w._update_kwargs.freq = 0
                       THEN state_dict[part] ELSE @,
                   !._update_count = @ + 1]
    ELSE [w EXCEPT !._model[part] = momentum(@, state_dict[part])]

update_actor(w, state_dict, direct) ==
    FinerTargetNetworkWrapper_update(w, "actor", state_dict, direct)

update_critic(w, state_dict, direct) ==
    FinerTargetNetworkWrapper_update(w, "critic", state_dict, direct)

\* FinerTargetNetworkWrapper.reset_state, lines 874-882
FinerTargetNetworkWrapper_reset_state(w, target_update_count) ==
    IF target_update_count # NotGiven
    THEN [w EXCEPT !._update_count = target_update_count[1]]
    ELSE w

FinerFrame ==
    UNCHANGED <<leagueVars, target, hidden_state, hidden_state_ac,
                wrapper_name_map, model, action_trigger_noise>>

\* a call of update_actor or update_critic.  ret keeps the call and counts
\* the non-direct calls of each method; plain says that no direct update and
\* no reset with a count was made so far
finer_update ==
    /\ ret.calls.actor + ret.calls.critic < MaxUpdates
    /\ \E part \in {"actor", "critic"}, v \in StateDicts, direct \in BOOLEAN :
          /\ finer_target' =
                 IF part = "actor"
                 THEN update_actor(finer_target, Net(v), direct)
                 ELSE update_critic(finer_target, Net(v), direct)
          /\ ret' = [call |-> "update_" \o part,
                     part |-> part,
                     state_dict |-> Given(Net(v)),
                     direct |-> direct,
                     calls |-> IF direct THEN ret.calls
                               ELSE [ret.calls EXCEPT ![part] = @ + 1],
                     plain |-> ret.plain /\ ~direct]
    /\ FinerFrame

finer_reset ==
    /\ \E c \in {NotGiven} \cup {Given(k) : k \in 0..MaxFreq} :
          /\ finer_target' = FinerTargetNetworkWrapper_reset_state(finer_target, c)
          /\ ret' = [call |-> "reset",
                     part |-> None,
                     state_dict |-> NotGiven,
                     direct |-> FALSE,
                     calls |-> ret.calls,
                     plain |-> ret.plain /\ c = NotGiven]
    /\ FinerFrame

FinerInit ==
    /\ LeagueIdle
    /\ \E update_type \in {"assign", "momentum"}, freq \in 1..MaxFreq :
          finer_target =
              FinerTargetNetworkWrapper(Net(0), update_type, [freq |-> freq])
    /\ ret = [call |-> "__init__", part |-> None, state_dict |-> NotGiven,
              direct |-> FALSE, calls |-> [actor |-> 0, critic |-> 0],
              plain |-> TRUE]
    /\ target = None
    /\ hidden_state = None
    /\ hidden_state_ac = None
    /\ wrapper_name_map = None
    /\ model = None
    /\ action_trigger_noise = None

FinerNext ==
    \/ finer_update
    \/ finer_reset

FinerSpec == FinerInit /\ [][FinerNext]_vars

\* C31: FinerTargetNetworkWrapper refreshes actor and critic separately.  In
\* 'assign' mode with frequency F (and no direct update or count reset in
\* between) the k-th non-direct call of update_actor assigns the actor
\* parameters exactly when k is a multiple of F, and the k-th non-direct
\* call of update_critic assigns the critic parameters exactly when k is a
\* multiple of F, however the calls of the other method are interleaved.
C31_SeparateSchedules ==
    [][(/\ ret'.call \in {"update_actor", "update_critic"}
        /\ ~ret'.direct
        /\ ret'.plain
        /\ finer_target._update_type = "assign") =>
          LET part == ret'.part
              k == ret'.calls[part]
          IN finer_target'._model[part] =
                 IF k % finer_target._update_kwargs.freq = 0
                 THEN ret'.state_dict[1][part]
                 ELSE finer_target._model[part]]_vars

----------------------------------------------------------------------------
(* HiddenStateWrapper, lines 70-142.  _state maps each of the state_num    *)
(* sample ids to its hidden state.  The wrapped model is the environment   *)
(* of the wrapper: it is given data['prev_state'] and returns next_state.  *)

\* state_num of the wrapper
StateNum == 2
\* the longest data_id list, and the longest state list, of a call
MaxBatch == 2

\* what init_fn() returns
InitState == 0
\* the hidden states a model returns or a caller passes to reset
HiddenStates == {1, 2}

\* range(n) as a list
range(n) == [k \in 1..n |-> k - 1]

\* the lists of length 0 .. n over the set S
RECURSIVE ListsUpTo(_, _)
ListsUpTo(S, n) ==
    IF n = 0 THEN {<<>>}
    ELSE LET shorter == ListsUpTo(S, n - 1)
         IN shorter \cup {Append(l, x) : l \in {m \in shorter : Len(m) = n - 1},
                                         x \in S}

\* the lists of exactly n elements of S
ListsOf(S, n) == {l \in ListsUpTo(S, n) : Len(l) = n}

\* lists of sample ids as callers pass them in data_id: some of the ids,
\* each once
IdLists ==
    {l \in ListsUpTo(0..(StateNum - 1), MaxBatch) :
        /\ Len(l) > 0
        /\ \A j, k \in DOMAIN l : j # k => l[j] # l[k]}

\* HiddenStateWrapper.__init__, lines 90-96
HiddenStateWrapper(state_num, save_prev_state) ==
    [_state_num |-> state_num,
     _state |-> [id \in 0..(state_num - 1) |-> InitState],
     _save_prev_state |-> save_prev_state]

\* the loop of lines 124-125, for ids that are distinct
assign_states(w, state_id, state) ==
    [w EXCEPT !._state =
        [id \in DOMAIN @ |->
            IF \E k \in DOMAIN state_id : state_id[k] = id
            THEN state[CHOOSE k \in DOMAIN state_id : state_id[k] = id]
            ELSE @[id]]]

\* every state is reset, whatever ids are given
HiddenStateWrapper_reset_state_all(w, state, state_id) ==
    [w |-> [w EXCEPT !._state = [id \in DOMAIN @ |-> InitState]],
     raised |-> None]

\* HiddenStateWrapper.reset_state(state, state_id), lines 118-125; gives the
\* wrapper after the call and the exception that ended it, if any
HiddenStateWrapper_reset_state(w, state, state_id) ==
    LET ids == IF state_id = NotGiven THEN range(w._state_num) ELSE state_id[1]
        sts == IF state = NotGiven THEN [k \in DOMAIN ids |-> InitState]
               ELSE state[1]
    IN IF Len(sts) # Len(ids)
       THEN [w |-> w, raised |-> "AssertionError"]
       ELSE [w |-> assign_states(w, ids, sts), raised |-> None]

\* HiddenStateWrapper.before_forward, lines 127-133: state_info, the dict
\* idx -> state in the order of state_id (the ids are distinct, so the dict
\* keeps one entry for each); data['prev_state'] is the list of its values
HiddenStateWrapper_before_forward(w, state_id) ==
    LET ids == IF state_id = NotGiven THEN range(w._state_num) ELSE state_id[1]
    IN [k \in DOMAIN ids |-> [idx |-> ids[k], state |-> w._state[ids[k]]]]

prev_state_of(state_info) == [k \in DOMAIN state_info |-> state_info[k].state]

\* valid_id is ignored: every id of the batch takes its next state
HiddenStateWrapper_after_forward_any(w, h, state_info, valid_id) ==
    [w EXCEPT !._state =
        [id \in DOMAIN @ |->
            IF \E k \in DOMAIN state_info : state_info[k].idx = id
            THEN h[CHOOSE k \in DOMAIN state_info : state_info[k].idx = id]
            ELSE @[id]]]

\* HiddenStateWrapper.after_forward, lines 135-142 (len(h) = len(state_info)
\* here: the model returns one next state for each sample it was given)
HiddenStateWrapper_after_forward(w, h, state_info, valid_id) ==
    [w EXCEPT !._state =
        [id \in DOMAIN @ |->
            IF \E k \in DOMAIN state_info :
                  /\ state_info[k].idx = id
                  /\ valid_id = NotGiven \/ id \in valid_id[1]
            THEN h[CHOOSE k \in DOMAIN state_info : state_info[k].idx = id]
            ELSE @[id]]]

HiddenFrame ==
    UNCHANGED <<leagueVars, target, finer_target, hidden_state_ac,
                wrapper_name_map, model, action_trigger_noise>>

\* HiddenStateWrapper.forward(data, data_id, valid_id), lines 98-109, with
\* the model's answer h (output['next_state'], or none)
hidden_forward ==
    /\ \E state_id \in {NotGiven} \cup {Given(l) : l \in IdLists},
          valid_id \in {NotGiven} \cup
                       {Given(V) : V \in SUBSET (0..(StateNum - 1))} :
          LET state_info == HiddenStateWrapper_before_forward(hidden_state, state_id)
          IN \E h \in {NotGiven} \cup
                      {Given(l) : l \in ListsOf(HiddenStates, Len(state_info))} :
                /\ hidden_state' =
                       IF h = NotGiven THEN hidden_state
                       ELSE HiddenStateWrapper_after_forward(
                                hidden_state, h[1], state_info, valid_id)
                /\ ret' = [call |-> "forward",
                           data_id |-> state_id,
                           valid_id |-> valid_id,
                           state |-> NotGiven,
                           prev_state |-> Given(prev_state_of(state_info)),
                           next_state |-> h,
                           raised |-> None]
    /\ HiddenFrame

\* HiddenStateWrapper.reset(state, data_id), lines 111-116; the model has no
\* reset of its own
hidden_reset ==
    /\ \E state_id \in {NotGiven} \cup {Given(l) : l \in IdLists},
          state \in {NotGiven} \cup
                    {Given(l) : l \in ListsUpTo(HiddenStates, MaxBatch)} :
          LET r == HiddenStateWrapper_reset_state(hidden_state, state, state_id)
          IN /\ hidden_state' = r.w
             /\ ret' = [call |-> "reset",
                        data_id |-> state_id,
                        valid_id |-> NotGiven,
                        state |-> state,
                        prev_state |-> NotGiven,
                        next_state |-> NotGiven,
                        raised |-> r.raised]
    /\ HiddenFrame

HiddenInit ==
    /\ LeagueIdle
    /\ hidden_state = HiddenStateWrapper(StateNum, FALSE)
    /\ ret = [call |-> "__init__", data_id |-> NotGiven, valid_id |-> NotGiven,
              state |-> NotGiven, prev_state |-> NotGiven,
              next_state |-> NotGiven, raised |-> None]
    /\ target = None
    /\ finer_target = None
    /\ hidden_state_ac = None
    /\ wrapper_name_map = None
    /\ model = None
    /\ action_trigger_noise = None

HiddenNext ==
    \/ hidden_forward
    \/ hidden_reset

HiddenSpec == HiddenInit /\ [][HiddenNext]_vars

\* C33: a reset with ids S sets exactly the states of the ids in S: to the
\* given states, in the order of S, or to fresh initial states when no
\* states are given; without ids it sets every state; the states of all
\* other ids stay as they were.  When the number of given states differs
\* from the number of ids the call fails with an assertion error and no
\* state has changed.
C33_ResetExactlyGivenIds ==
    [][ret'.call = "reset" =>
        LET S == IF ret'.data_id = NotGiven THEN range(StateNum)
                 ELSE ret'.data_id[1]
            given == ret'.state
        IN IF given # NotGiven /\ Len(given[1]) # Len(S)
           THEN /\ ret'.raised = "AssertionError"
                /\ hidden_state' = hidden_state
           ELSE /\ ret'.raised = None
                /\ \A k \in DOMAIN S :
                      hidden_state'._state[S[k]] =
                          IF given = NotGiven THEN InitState ELSE given[1][k]
                /\ \A id \in 0..(StateNum - 1) :
                      (\A k \in DOMAIN S : S[k] # id) =>
                          hidden_state'._state[id] = hidden_state._state[id]
                /\ hidden_state'._state_num = hidden_state._state_num]_vars

\* a reset of one id out of several has run: that id holds its given state
\* and another id still holds a state a forward stored
C33_Witness ==
    /\ ret.call = "reset"
    /\ ret.raised = None
    /\ ret.data_id # NotGiven
    /\ ret.state # NotGiven
    /\ Len(ret.data_id[1]) = 1
    /\ hidden_state._state[ret.data_id[1][1]] = ret.state[1][1]
    /\ \E id \in 0..(StateNum - 1) :
          /\ id # ret.data_id[1][1]
          /\ hidden_state._state[id] \in HiddenStates
          /\ hidden_state._state[id] # ret.state[1][1]

\* C34: a forward with ids S hands the model, as prev_state and in the order
\* of S, exactly the states stored for the ids of S; it then stores the
\* returned next states for the ids of S only, and when valid_id is given
\* only for those of them that are in valid_id; every other id keeps its
\* state.  A stored state changes in no other way than by such a store or by
\* a reset that names the id, so the state a forward stored for an id is the
\* prev_state of the next forward with that id unless the id was reset.
C34_StateThreading ==
    [][LET S == IF ret'.data_id = NotGiven THEN range(StateNum)
                ELSE ret'.data_id[1]
           stores(id) == /\ ret'.call = "forward"
                         /\ ret'.next_state # NotGiven
                         /\ \E k \in DOMAIN S : S[k] = id
                         /\ ret'.valid_id = NotGiven \/ id \in ret'.valid_id[1]
           resets(id) == /\ ret'.call = "reset"
                         /\ \E k \in DOMAIN S : S[k] = id
       IN /\ ret'.call = "forward" =>
                /\ ret'.raised = None
                /\ ret'.prev_state =
                       Given([k \in DOMAIN S |-> hidden_state._state[S[k]]])
                /\ \A k \in DOMAIN S :
                      stores(S[k]) =>
                          hidden_state'._state[S[k]] = ret'.next_state[1][k]
          /\ \A id \in 0..(StateNum - 1) :
                hidden_state'._state[id] # hidden_state._state[id] =>
                    stores(id) \/ resets(id)]_vars

\* a forward over two ids, given in descending order and with different
\* stored states, has stored the next state of the one valid id only
C34_Witness ==
    /\ ret.call = "forward"
    /\ ret.data_id # NotGiven
    /\ ret.valid_id # NotGiven
    /\ ret.next_state # NotGiven
    /\ Len(ret.data_id[1]) = 2
    /\ ret.data_id[1][1] > ret.data_id[1][2]
    /\ ret.prev_state[1][1] # ret.prev_state[1][2]
    /\ ret.prev_state[1][1] \in HiddenStates
    /\ ret.prev_state[1][2] \in HiddenStates
    /\ ret.valid_id[1] = {ret.data_id[1][2]}
    /\ ret.next_state[1][1] # ret.next_state[1][2]
    /\ hidden_state._state[ret.data_id[1][2]] = ret.next_state[1][2]
    /\ hidden_state._state[ret.data_id[1][1]] = ret.prev_state[1][1]
    /\ ret.prev_state[1][1] # ret.next_state[1][1]
    /\ ret.prev_state[1][2] # ret.next_state[1][2]

----------------------------------------------------------------------------
(* HiddenStateACWrapper, lines 145-247: one hidden state for the actor and *)
(* one for the critic (a list of two when the model has twin critics).     *)
(* A state is written as the list of its values: <<v>> for a single state, *)
(* <<v1, v2>> for the two states of twin critics.                          *)

Modes == {"compute_actor", "compute_critic", "compute_other"}

\* HiddenStateACWrapper.__init__, lines 166-176
HiddenStateACWrapper(twin_critic, save_prev_state) ==
    [twin_critic |-> twin_critic,
     _state_critic |-> IF twin_critic THEN [j \in 1..2 |-> InitState]
                       ELSE <<InitState>>,
     _state_actor |-> <<InitState>>,
     _save_prev_state |-> save_prev_state]

\* HiddenStateACWrapper.reset_state, lines 185-204; gives the wrapper after
\* the call and the exception that ended it, if any
HiddenStateACWrapper_reset_state(w, critic_state, actor_state) ==
    IF ~((~w.twin_critic) \/ critic_state = NotGiven \/ Len(critic_state[1]) = 2)
    THEN [w |-> w, raised |-> "AssertionError"]
    ELSE LET a  == IF actor_state = NotGiven THEN <<InitState>>
                   ELSE actor_state[1]
             cs == IF critic_state = NotGiven
                   THEN IF w.twin_critic THEN <<InitState, InitState>>
                        ELSE <<InitState>>
                   ELSE critic_state[1]
         IN [w |-> [w EXCEPT !._state_critic =
                                 IF w.twin_critic THEN [j \in 1..2 |-> cs[j]]
                                 ELSE cs,
                             !._state_actor = a],
             raised |-> None]

\* HiddenStateACWrapper.before_forward, lines 231-239: data['prev_state'],
\* or the exception raised
HiddenStateACWrapper_before_forward(w, mode) ==
    IF mode = "compute_actor"
    THEN [prev_state |-> Given(w._state_actor), raised |-> None]
    ELSE IF mode = "compute_critic"
    THEN [prev_state |-> Given(w._state_critic), raised |-> None]
    ELSE [prev_state |-> NotGiven, raised |-> "Exception"]

\* the next state is stored as the state of both parts
HiddenStateACWrapper_after_forward_both(w, h, mode) ==
    [w EXCEPT !._state_actor = h, !._state_critic = h]

\* HiddenStateACWrapper.after_forward, lines 241-247 (the mode is one of
\* the two: before_forward has raised for any other)
HiddenStateACWrapper_after_forward(w, h, mode) ==
    IF mode = "compute_actor" THEN [w EXCEPT !._state_actor = h]
    ELSE [w EXCEPT !._state_critic = h]

HiddenACFrame ==
    UNCHANGED <<leagueVars, target, finer_target, hidden_state,
                wrapper_name_map, model, action_trigger_noise>>

\* the next states a model returns for a mode
NextStates(w, mode) ==
    IF mode = "compute_critic" /\ w.twin_critic
    THEN ListsOf(HiddenStates, 2)
    ELSE ListsOf(HiddenStates, 1)

\* HiddenStateACWrapper.forward(data, mode), lines 207-228, with the model's
\* answer h (output['next_state'], or none)
ac_forward ==
    /\ \E mode \in Modes :
          LET b == HiddenStateACWrapper_before_forward(hidden_state_ac, mode)
          IN IF b.raised # None
             THEN /\ hidden_state_ac' = hidden_state_ac
                  /\ ret' = [call |-> "forward", mode |-> mode,
                             model_called |-> FALSE,
                             prev_state |-> NotGiven, next_state |-> NotGiven,
                             critic_state |-> NotGiven, actor_state |-> NotGiven,
                             raised |-> b.raised]
             ELSE \E h \in {NotGiven} \cup
                           {Given(l) : l \in NextStates(hidden_state_ac, mode)} :
                     /\ hidden_state_ac' =
                            IF h = NotGiven THEN hidden_state_ac
                            ELSE HiddenStateACWrapper_after_forward(
                                     hidden_state_ac, h[1], mode)
                     /\ ret' = [call |-> "forward", mode |-> mode,
                                model_called |-> TRUE,
                                prev_state |-> b.prev_state, next_state |-> h,
                                critic_state |-> NotGiven,
                                actor_state |-> NotGiven,
                                raised |-> None]
    /\ HiddenACFrame

\* HiddenStateACWrapper.reset(critic_state, actor_state), lines 178-183; the
\* model has no reset of its own
ac_reset ==
    /\ \E critic_state \in {NotGiven} \cup
                           {Given(l) : l \in ListsUpTo(HiddenStates, 2) \ {<<>>}},
          actor_state \in {NotGiven} \cup
                          {Given(l) : l \in ListsOf(HiddenStates, 1)} :
          LET r == HiddenStateACWrapper_reset_state(
                       hidden_state_ac, critic_state, actor_state)
          IN /\ hidden_state_ac' = r.w
             /\ ret' = [call |-> "reset", mode |-> None,
                        model_called |-> FALSE,
                        prev_state |-> NotGiven, next_state |-> NotGiven,
                        critic_state |-> critic_state,
                        actor_state |-> actor_state,
                        raised |-> r.raised]
    /\ HiddenACFrame

HiddenACInit ==
    /\ LeagueIdle
    /\ \E twin_critic \in BOOLEAN, save_prev_state \in BOOLEAN :
          hidden_state_ac = HiddenStateACWrapper(twin_critic, save_prev_state)
    /\ ret = [call |-> "__init__", mode |-> None, model_called |-> FALSE,
              prev_state |-> NotGiven, next_state |-> NotGiven,
              critic_state |-> NotGiven, actor_state |-> NotGiven,
              raised |-> None]
    /\ target = None
    /\ finer_target = None
    /\ hidden_state = None
    /\ wrapper_name_map = None
    /\ model = None
    /\ action_trigger_noise = None

HiddenACNext ==
    \/ ac_forward
    \/ ac_reset

HiddenACSpec == HiddenACInit /\ [][HiddenACNext]_vars

\* C35: a forward in mode compute_actor hands the model the actor state and
\* stores a returned next state as the actor state, leaving the critic state
\* alone; a forward in mode compute_critic does the same with the critic
\* state, leaving the actor state alone; a forward in any other mode raises
\* before the model is called and changes neither; a reset without
\* arguments sets both to fresh initial states, two of them for the critic
\* of a model with twin critics.
C35_ActorCriticApart ==
    [][LET w  == hidden_state_ac
           w2 == hidden_state_ac'
           r  == ret'
       IN /\ (r.call = "forward" /\ r.mode = "compute_actor") =>
                /\ r.model_called /\ r.raised = None
                /\ r.prev_state = Given(w._state_actor)
                /\ w2._state_actor = IF r.next_state = NotGiven
                                     THEN w._state_actor ELSE r.next_state[1]
                /\ w2._state_critic = w._state_critic
          /\ (r.call = "forward" /\ r.mode = "compute_critic") =>
                /\ r.model_called /\ r.raised = None
                /\ r.prev_state = Given(w._state_critic)
                /\ w2._state_critic = IF r.next_state = NotGiven
                                      THEN w._state_critic ELSE r.next_state[1]
                /\ w2._state_actor = w._state_actor
          /\ (r.call = "forward"
                /\ r.mode \notin {"compute_actor", "compute_critic"}) =>
                /\ ~r.model_called
                /\ r.raised = "Exception"
                /\ w2 = w
          /\ (r.call = "reset" /\ r.critic_state = NotGiven
                /\ r.actor_state = NotGiven) =>
                /\ r.raised = None
                /\ w2._state_actor = <<InitState>>
                /\ w2._state_critic = IF w.twin_critic
                                      THEN <<InitState, InitState>>
                                      ELSE <<InitState>>
          /\ w2.twin_critic = w.twin_critic]_vars

\* a forward of the actor of a twin-critic model has stored a next state
\* while the two critic states hold what an earlier critic forward stored
C35_Witness ==
    /\ ret.call = "forward"
    /\ ret.mode = "compute_actor"
    /\ ret.next_state # NotGiven
    /\ hidden_state_ac.twin_critic
    /\ hidden_state_ac._state_actor = ret.next_state[1]
    /\ ret.prev_state # NotGiven
    /\ ret.prev_state[1] # ret.next_state[1]
    /\ hidden_state_ac._state_critic[1] \in HiddenStates
    /\ hidden_state_ac._state_critic[2] \in HiddenStates
    /\ hidden_state_ac._state_critic[1] # hidden_state_ac._state_critic[2]
    /\ hidden_state_ac._state_critic # hidden_state_ac._state_actor

----------------------------------------------------------------------------
(* model_wrap and register_wrapper, lines 956-1001.  A model is written as *)
(* the list of the wrapper classes around the raw model, innermost first;  *)
(* the raw model is the empty list and is no IModelWrapper.                *)

\* the most wrappers a chain gets
MaxChain == 3

\* wrapper names callers use; "custom" is not in wrapper_name_map at import
WrapperNames == {"base", "target", "custom"}

\* wrapper classes, all subclasses of IModelWrapper
WrapperTypes == {"BaseModelWrapper", "TargetNetworkWrapper", "CustomWrapper"}

\* isinstance(model, IModelWrapper)
IsModelWrapper(m) == Len(m) > 0

\* model_wrap(model, wrapper_name), lines 981-988: the model returned, or
\* the exception raised
model_wrap(m, wrapper_name, name_map) ==
    IF name_map[wrapper_name] # None
    THEN LET based == IF ~IsModelWrapper(m)
                      THEN Append(m, name_map["base"]) ELSE m
         IN [model |-> Append(based, name_map[wrapper_name]), raised |-> None]
    ELSE [model |-> m, raised |-> "TypeError"]

\* register_wrapper(name, wrapper_type), lines 991-1001
register_wrapper(name, wrapper_type, name_map) ==
    [name_map EXCEPT ![name] = wrapper_type]

WrapFrame ==
    UNCHANGED <<leagueVars, target, finer_target, hidden_state,
                hidden_state_ac, action_trigger_noise>>

\* model = model_wrap(model, wrapper_name); ret.wrapped lists the classes
\* that were registered under the names of the calls that returned
wrap ==
    /\ Len(model) < MaxChain
    /\ \E wrapper_name \in WrapperNames :
          LET r == model_wrap(model, wrapper_name, wrapper_name_map)
          IN /\ model' = r.model
             /\ ret' = [call |-> "model_wrap",
                        name |-> wrapper_name,
                        raised |-> r.raised,
                        wrapped |-> IF r.raised = None
                                    THEN Append(ret.wrapped,
                                                wrapper_name_map[wrapper_name])
                                    ELSE ret.wrapped]
    /\ UNCHANGED wrapper_name_map
    /\ WrapFrame

\* register_wrapper(name, wrapper_type) by a caller
register ==
    /\ \E name \in WrapperNames, wrapper_type \in WrapperTypes :
          /\ wrapper_name_map' =
                 register_wrapper(name, wrapper_type, wrapper_name_map)
          /\ ret' = [ret EXCEPT !.call = "register_wrapper",
                                !.name = name,
                                !.raised = None]
    /\ UNCHANGED model
    /\ WrapFrame

WrapInit ==
    /\ LeagueIdle
    /\ wrapper_name_map = [n \in WrapperNames |->
                              IF n = "base" THEN "BaseModelWrapper"
                              ELSE IF n = "target" THEN "TargetNetworkWrapper"
                              ELSE None]
    /\ model = <<>>
    /\ ret = [call |-> "import", name |-> None, raised |-> None,
              wrapped |-> <<>>]
    /\ target = None
    /\ finer_target = None
    /\ hidden_state = None
    /\ hidden_state_ac = None
    /\ action_trigger_noise = None

WrapNext ==
    \/ wrap
    \/ register

WrapSpec == WrapInit /\ [][WrapNext]_vars

\* C36: after model_wrap calls with registered names on a raw model the
\* chain has exactly one BaseModelWrapper, directly around the raw model,
\* and on top of it one wrapper for each call, in the order of the calls and
\* of the class registered under the call's name at that time; a call with
\* an unregistered name raises TypeError.
C36_ChainShape ==
    /\ model # <<>> =>
          /\ model[1] = "BaseModelWrapper"
          /\ \A k \in 2..Len(model) : model[k] # "BaseModelWrapper"
          /\ SubSeq(model, 2, Len(model)) = ret.wrapped
    /\ model = <<>> => ret.wrapped = <<>>
    /\ ret.call = "model_wrap" =>
          (ret.raised = "TypeError" <=> wrapper_name_map[ret.name] = None)

----------------------------------------------------------------------------
(* ActionTriggerNoiseWrapper, lines 716-793.  The random numbers of a call *)
(* (the noise, the uniform draw, the fresh trigger) are inputs of the call. *)

\* the largest trigger_exp a wrapper is built with
MaxTriggerExp == 3
\* forward calls made after trigger_step has reached zero
MaxLateCalls == 2
\* the longest trigger tensor
MaxTriggerLen == 2
\* np.random.uniform(0, 1) draws one of 0/DrawGrid .. (DrawGrid-1)/DrawGrid
DrawGrid == 4

\* trigger tensors: 0/1 values, any shape up to MaxTriggerLen
Triggers == ListsUpTo({0, 1}, MaxTriggerLen) \ {<<>>}

\* the model's actions and the noise of the generator
ActionValues == {-1, 0, 1}
NoiseValues == {-2, 0, 2}

\* ActionTriggerNoiseWrapper.__init__, lines 730-749
ActionTriggerNoiseWrapper(trigger_exp) ==
    [trigger_exp |-> trigger_exp,
     trigger_step |-> trigger_exp,
     action_range |-> [min |-> -1, max |-> 1]]

clamp(x, lo, hi) == IF x < lo THEN lo ELSE IF x > hi THEN hi ELSE x

\* ActionTriggerNoiseWrapper.add_action_noise, lines 757-775, with the noise
\* the generator produced (noise_range is None, the default)
add_action_noise(w, action, noise) ==
    clamp(action + noise, w.action_range.min, w.action_range.max)

\* ActionTriggerNoiseWrapper.add_trigger_noise, lines 777-786, with the
\* uniform draw u / DrawGrid and the tensor torch.rand(shape) > 0.5 gives:
\* the wrapper afterwards, the value returned and the exception raised.
\* new_trigger is bound only in the branch of the shuffle.
add_trigger_noise(w, trigger, u, fresh) ==
    LET step == w.trigger_step - 1
        w2 == [w EXCEPT !.trigger_step = step]
    IN IF u * w.trigger_exp < step * DrawGrid
       THEN [w |-> w2, new_trigger |-> Given(fresh), raised |-> None]
       ELSE [w |-> w2, new_trigger |-> NotGiven, raised |-> "UnboundLocalError"]

NoiseFrame ==
    UNCHANGED <<leagueVars, target, finer_target, hidden_state,
                hidden_state_ac, wrapper_name_map, model>>

\* ActionTriggerNoiseWrapper.forward, lines 751-755, around a model whose
\* output holds 'action' and 'trigger'
noise_forward ==
    /\ action_trigger_noise.trigger_step > -MaxLateCalls
    /\ \E action \in ActionValues, noise \in NoiseValues, trigger \in Triggers,
          u \in 0..(DrawGrid - 1) :
          \E fresh \in ListsOf({0, 1}, Len(trigger)) :
             LET r == add_trigger_noise(action_trigger_noise, trigger, u, fresh)
             IN /\ action_trigger_noise' = r.w
                /\ ret' = [call |-> "forward",
                           trigger |-> trigger,
                           output |-> IF r.raised = None
                                      THEN Given([action |-> add_action_noise(
                                                      action_trigger_noise,
                                                      action, noise),
                                                  trigger |-> r.new_trigger[1]])
                                      ELSE NotGiven,
                           raised |-> r.raised]
    /\ NoiseFrame

\* ActionTriggerNoiseWrapper.reset, lines 788-793: nothing is reset
noise_reset ==
    /\ action_trigger_noise' = action_trigger_noise
    /\ ret' = [call |-> "reset", trigger |-> <<>>, output |-> NotGiven,
               raised |-> None]
    /\ NoiseFrame

NoiseInit ==
    /\ LeagueIdle
    /\ \E trigger_exp \in 1..MaxTriggerExp :
          action_trigger_noise = ActionTriggerNoiseWrapper(trigger_exp)
    /\ ret = [call |-> "__init__", trigger |-> <<>>, output |-> NotGiven,
              raised |-> None]
    /\ target = None
    /\ finer_target = None
    /\ hidden_state = None
    /\ hidden_state_ac = None
    /\ wrapper_name_map = None
    /\ model = None

NoiseNext ==
    \/ noise_forward
    \/ noise_reset

NoiseSpec == NoiseInit /\ [][NoiseNext]_vars

\* C37: every forward of ActionTriggerNoiseWrapper lowers trigger_step by
\* exactly one and returns an output with a 'trigger' of the shape of the
\* model's trigger, whether the draw shuffles it or not, and also after
\* trigger_exp calls, when the probability of a shuffle is zero.
C37_ForwardKeepsSucceeding ==
    [][ret'.call = "forward" =>
          /\ action_trigger_noise'.trigger_step =
                 action_trigger_noise.trigger_step - 1
          /\ ret'.raised = None
          /\ ret'.output # NotGiven
          /\ Len(ret'.output[1].trigger) = Len(ret'.trigger)]_vars

----------------------------------------------------------------------------
(* The hybrid sampling wrappers, lines 287-312 and 435-514, as functions   *)
(* of the model's output and of the random numbers of the call.  The model *)
(* returns one logit tensor over the action types (a list of scores), the  *)
(* action_args and optionally an action_mask.                              *)

\* the number of discrete action types
NumActionTypes == 2
LogitValues == {0, 1}
ActionArgs == {5, 6}
\* stands for the 1e8 subtracted from the logit of a masked action type
MaskPenalty == 100

\* the outputs of the wrapped model
ModelOutputs ==
    [logit : ListsOf(LogitValues, NumActionTypes),
     action_args : ActionArgs,
     action_mask : {NotGiven} \cup
                   {Given(m) : m \in ListsOf({0, 1}, NumActionTypes)}]

\* l.sub_(1e8 * (1 - m)) when the output has an action_mask
masked_logit(output) ==
    IF output.action_mask = NotGiven THEN output.logit
    ELSE [k \in DOMAIN output.logit |->
             output.logit[k] - MaskPenalty * (1 - output.action_mask[1][k])]

\* l.argmax(dim=-1): the index, from 0, of the first largest score
argmax(l) ==
    (CHOOSE k \in DOMAIN l :
        /\ \A j \in DOMAIN l : l[j] <= l[k]
        /\ \A j \in DOMAIN l : j < k => l[j] < l[k]) - 1

\* the dict built on lines 311, 470 and 513
hybrid_output(action, action_args, logit) ==
    [action |-> [action_type |-> action, action_args |-> action_args],
     logit |-> logit]

\* HybridArgmaxSampleWrapper.forward, lines 294-312
HybridArgmaxSampleWrapper_forward(output) ==
    LET logit == masked_logit(output)
    IN Given(hybrid_output(argmax(logit), output.action_args, logit))

\* HybridEpsGreedySampleWrapper.forward, lines 444-471: greedy says whether
\* np.random.random() > eps, sampled is the action of the random branch.
\* The dict is assigned to output on line 470; line 471 returns nothing.
HybridEpsGreedySampleWrapper_forward(output, greedy, sampled) ==
    LET logit == masked_logit(output)
        action == IF greedy THEN argmax(logit) ELSE sampled
        built == hybrid_output(action, output.action_args, logit)
    IN NotGiven

\* HybridEpsGreedyMultinomialSampleWrapper.forward, lines 484-514: sampled
\* is the action drawn by sample_action or torch.randint
HybridEpsGreedyMultinomialSampleWrapper_forward(output, greedy, sampled) ==
    LET logit == masked_logit(output)
    IN Given(hybrid_output(sampled, output.action_args, logit))

HybridFrame ==
    UNCHANGED <<leagueVars, target, finer_target, hidden_state,
                hidden_state_ac, wrapper_name_map, action_trigger_noise>>

hybrid_argmax_forward ==
    /\ ret' = [call |-> "HybridArgmaxSampleWrapper",
               output |-> HybridArgmaxSampleWrapper_forward(model)]
    /\ UNCHANGED model
    /\ HybridFrame

hybrid_eps_greedy_forward ==
    /\ \E greedy \in BOOLEAN, sampled \in 0..(NumActionTypes - 1) :
          ret' = [call |-> "HybridEpsGreedySampleWrapper",
                  output |-> HybridEpsGreedySampleWrapper_forward(
                                 model, greedy, sampled)]
    /\ UNCHANGED model
    /\ HybridFrame

hybrid_eps_greedy_multinomial_forward ==
    /\ \E greedy \in BOOLEAN, sampled \in 0..(NumActionTypes - 1) :
          ret' = [call |-> "HybridEpsGreedyMultinomialSampleWrapper",
                  output |-> HybridEpsGreedyMultinomialSampleWrapper_forward(
                                 model, greedy, sampled)]
    /\ UNCHANGED model
    /\ HybridFrame

HybridInit ==
    /\ LeagueIdle
    /\ model \in ModelOutputs
    /\ ret = [call |-> "none", output |-> NotGiven]
    /\ target = None
    /\ finer_target = None
    /\ hidden_state = None
    /\ hidden_state_ac = None
    /\ wrapper_name_map = None
    /\ action_trigger_noise = None

HybridNext ==
    \/ hybrid_argmax_forward
    \/ hybrid_eps_greedy_forward
    \/ hybrid_eps_greedy_multinomial_forward

HybridSpec == HybridInit /\ [][HybridNext]_vars

\* what the hybrid sampling wrappers return: 'action' with an action type
\* and the model's action_args, and the logit
HybridShape(out) ==
    /\ out # NotGiven
    /\ out[1].action.action_type \in 0..(NumActionTypes - 1)
    /\ out[1].action.action_args = model.action_args
    /\ out[1].logit = masked_logit(model)

\* C38: for every model output with 'logit' and 'action_args' the forward of
\* HybridEpsGreedySampleWrapper returns an output holding 'action' =
\* {'action_type', 'action_args'} and 'logit', as the forward of
\* HybridArgmaxSampleWrapper and of HybridEpsGreedyMultinomialSampleWrapper
\* does.
C38_HybridEpsGreedyReturns ==
    ret.call = "HybridEpsGreedySampleWrapper" => HybridShape(ret.output)

====
